---- MODULE Spec2Model ----
(***************************************************************************)
(* Model of the authentication and authorization core of SSO-Web-App:      *)
(* the user repository (Credential Store), AdminService, AuthService       *)
(* tokens with AuthMiddleware, and the OAuth handlers with OAuthService.   *)
(*                                                                         *)
(* Strings are modelled by strings, "" being Go's empty string.  FirstName *)
(* and LastName are one field `name`; Bio, Website and Location are one    *)
(* field `bio`: every operation of the source writes the members of each   *)
(* group together.                                                         *)
(***************************************************************************)
EXTENDS Integers, Sequences, FiniteSets, TLC

VARIABLES
    users,        \* the users table: row i has primary key i (soft-deleted rows stay)
    nullableIDs,  \* TRUE: the provider-ID columns hold NULL for "no ID" (the *string
                  \* the services assign); FALSE: they hold '' (the string the model declares)
    now,          \* the wall clock, in seconds
    tokens,       \* the session tokens issued so far
    oauthState,   \* the browser's oauth_state cookie (NoCookie when the browser has none)
    last,         \* the last call and what it returned
    calls         \* the calls in progress on concurrent requests, by their steps

vars == <<users, nullableIDs, now, tokens, oauthState, last, calls>>

(***************************************************************************)
(* Bounds of the model.                                                    *)
(***************************************************************************)
SeedUsers == 2    \* how many rows of the seed script's list are in the initial table
MaxUsers == 3     \* rows the table may hold
MaxTokens == 2    \* session tokens kept
NumCallers == 2   \* requests served concurrently
MaxIdentityTokens == 1   \* session tokens issued in a behaviour of SpecIdentity

(***************************************************************************)
(* Values.                                                                 *)
(***************************************************************************)
OK == "ok"
ErrNotAuthorized == "NotAuthorized"
ErrInvalidRole == "InvalidRole"
ErrUserNotFound == "UserNotFound"
ErrSelfProtection == "SelfProtection"
ErrStore == "StoreError"
ErrInvalidCredentials == "InvalidCredentials"
ErrInvalidToken == "InvalidToken"
ErrUserExists == "UserExists"

\* The error replies of AuthMiddleware.
MsgTokenRequired == "Authorization token required"
MsgInvalidOrExpired == "Invalid or expired token"
MsgUserNotFound == "User not found"
MsgDeactivated == "Account is deactivated"

\* The reply of a handler whose request does not bind.
MsgBadRequest == "bad request"

\* The error replies of the OAuth callbacks.
MsgInvalidState == "Invalid state parameter"
MsgNoCode == "Authorization code not provided"
MsgExchange == "failed to exchange code for token"
MsgUserInfo == "failed to get user info"
MsgFindOrCreate == "failed to find or create user"

NoTime == -1

validRoles == {"user", "admin", "moderator"}

NoUser == 0

(***************************************************************************)
(* The users table.                                                        *)
(***************************************************************************)
NewUser(email, password, name, bio, active, verified, isAdmin, role, googleID, githubID, avatar) ==
    [id |-> NoUser, email |-> email, password |-> password, name |-> name, bio |-> bio,
     active |-> active, verified |-> verified, isAdmin |-> isAdmin, role |-> role,
     googleID |-> googleID, githubID |-> githubID, avatar |-> avatar,
     lastLogin |-> NoTime, deleted |-> FALSE]

\* gorm "default:" tags: a zero-valued field with a default is stored as the default.
ApplyDefaults(u) ==
    [u EXCEPT !.active = IF u.active = FALSE THEN TRUE ELSE u.active,
              !.role = IF u.role = "" THEN "user" ELSE u.role]

\* Two values of a uniqueIndex provider-ID column collide.
IDClash(x, y) == x = y /\ (x # "" \/ ~nullableIDs)

\* The unique indexes on email, google_id and git_hub_id, over every row but `id`
\* (a soft-deleted row is still a row of the index).
UniqueViolation(us, id, u) ==
    \E j \in DOMAIN us \ {id} :
        \/ us[j].email = u.email
        \/ IDClash(us[j].googleID, u.googleID)
        \/ IDClash(us[j].githubID, u.githubID)

Live(us, id) == id \in DOMAIN us /\ ~us[id].deleted

LiveIDs(us) == {i \in DOMAIN us : ~us[i].deleted}

MinOf(S) == IF S = {} THEN NoUser ELSE CHOOSE i \in S : \A j \in S : i <= j

\* Mutant: a table without the unique indexes.
CreateWithoutUniqueIndex(us, u) ==
    LET row == [ApplyDefaults(u) EXCEPT !.id = Len(us) + 1] IN
    [err |-> OK, users |-> Append(us, row), id |-> Len(us) + 1]

Create(us, u) ==
    LET row == [ApplyDefaults(u) EXCEPT !.id = Len(us) + 1] IN
    IF UniqueViolation(us, NoUser, row)
    THEN [err |-> ErrStore, users |-> us, id |-> NoUser]
    ELSE [err |-> OK, users |-> Append(us, row), id |-> Len(us) + 1]

GetByID(us, id) == IF Live(us, id) THEN id ELSE NoUser

GetByEmail(us, email) == MinOf({i \in LiveIDs(us) : us[i].email = email})

GetByGoogleID(us, googleID) ==
    MinOf({i \in LiveIDs(us) : us[i].googleID = googleID /\ (googleID # "" \/ ~nullableIDs)})

GetByGitHubID(us, githubID) ==
    MinOf({i \in LiveIDs(us) : us[i].githubID = githubID /\ (githubID # "" \/ ~nullableIDs)})

\* db.Save of a row read in the same call: every column is written.
Update(us, u) ==
    IF UniqueViolation(us, u.id, u)
    THEN [err |-> ErrStore, users |-> us, id |-> NoUser]
    ELSE [err |-> OK, users |-> [us EXCEPT ![u.id] = u], id |-> u.id]

\* db.Delete on a model with gorm.DeletedAt: a soft delete.
Delete(us, id) ==
    [err |-> OK,
     users |-> IF Live(us, id) THEN [us EXCEPT ![id].deleted = TRUE] ELSE us,
     id |-> NoUser]

(***************************************************************************)
(* The seed script.                                                        *)
(***************************************************************************)
HashPassword(password) == "bcrypt:" \o password

SeedList ==
    << NewUser("admin@example.com", HashPassword("admin123"), "System", "seed",
               TRUE, TRUE, TRUE, "admin", "", "", ""),
       NewUser("john.doe@example.com", HashPassword("admin123"), "John", "seed",
               TRUE, TRUE, FALSE, "user", "", "", ""),
       NewUser("jane.smith@example.com", HashPassword("admin123"), "Jane", "seed",
               TRUE, FALSE, FALSE, "moderator", "", "", ""),
       NewUser("bob.johnson@example.com", HashPassword("admin123"), "Bob", "seed",
               FALSE, TRUE, FALSE, "user", "", "", "") >>

RECURSIVE Seed(_)
Seed(k) ==
    IF k = 0 THEN <<>>
    ELSE Create(Seed(k - 1), SeedList[k]).users

(***************************************************************************)
(* AdminService.                                                           *)
(***************************************************************************)
\* A *bool of a request: "nil", "true" or "false".
BoolOf(p) == p = "true"

\* Mutant: only the role counts.
IsAdminRoleOnly(user) == user.role = "admin"

IsAdmin(user) == user.isAdmin \/ user.role = "admin"

\* "Prevent non-super-admin from modifying other admins"
AdminTargetDenied(user, adminUser) == user.isAdmin /\ adminUser.role # "admin"

\* The result of a read: the error and the IDs of the rows returned.
ReadResult(err, ids) == [err |-> err, ids |-> ids]

GetUserStats(us, adminUser) ==
    IF ~IsAdmin(adminUser) THEN ReadResult(ErrNotAuthorized, {})
    ELSE ReadResult(OK, LiveIDs(us))

GetAllUsers(us, adminUser) ==
    IF ~IsAdmin(adminUser) THEN ReadResult(ErrNotAuthorized, {})
    ELSE ReadResult(OK, LiveIDs(us))

GetUsersByRole(us, adminUser, role) ==
    IF ~IsAdmin(adminUser) THEN ReadResult(ErrNotAuthorized, {})
    ELSE IF role \notin validRoles THEN ReadResult(ErrInvalidRole, {})
    ELSE ReadResult(OK, {i \in LiveIDs(us) : us[i].role = role})

\* LIKE '%query%' on first_name, last_name and email: the queries of the model are
\* whole names or whole emails.
SearchUsers(us, adminUser, query) ==
    IF ~IsAdmin(adminUser) THEN ReadResult(ErrNotAuthorized, {})
    ELSE ReadResult(OK, {i \in LiveIDs(us) : us[i].name = query \/ us[i].email = query})

\* The result of the created_at query is left out: only the error matters here.
GetRecentUsers(us, adminUser) ==
    IF ~IsAdmin(adminUser) THEN ReadResult(ErrNotAuthorized, {})
    ELSE ReadResult(OK, LiveIDs(us))

AdminGetUserByID(us, adminUser, userID) ==
    IF ~IsAdmin(adminUser) THEN ReadResult(ErrNotAuthorized, {})
    ELSE IF GetByID(us, userID) = NoUser THEN ReadResult(ErrStore, {})
    ELSE ReadResult(OK, {userID})

\* The fields UpdateUser assigns before it looks at the role (lines 112-133).
UpdateUserFields(user, adminUser, req) ==
    [user EXCEPT
        !.name = req.name,
        !.email = req.email,
        !.bio = req.bio,
        !.active = IF req.isActive # "nil" THEN BoolOf(req.isActive) ELSE @,
        !.verified = IF req.isVerified # "nil" THEN BoolOf(req.isVerified) ELSE @,
        !.isAdmin = IF req.isAdmin # "nil" /\ adminUser.role = "admin"
                    THEN BoolOf(req.isAdmin) ELSE @]

\* Mutant: the assigned fields are saved before the role is validated.
UpdateUserSaveBeforeRoleCheck(us, adminUser, userID, req) ==
    IF ~IsAdmin(adminUser) THEN [err |-> ErrNotAuthorized, users |-> us, id |-> NoUser]
    ELSE IF GetByID(us, userID) = NoUser THEN [err |-> ErrUserNotFound, users |-> us, id |-> NoUser]
    ELSE IF AdminTargetDenied(us[userID], adminUser)
         THEN [err |-> ErrNotAuthorized, users |-> us, id |-> NoUser]
    ELSE LET saved == Update(us, UpdateUserFields(us[userID], adminUser, req)) IN
         IF req.role # "" /\ req.role \notin validRoles
         THEN [err |-> ErrInvalidRole, users |-> saved.users, id |-> NoUser]
         ELSE IF req.role = "admin" /\ adminUser.role # "admin"
         THEN [err |-> ErrNotAuthorized, users |-> saved.users, id |-> NoUser]
         ELSE IF req.role # "" THEN Update(us, [UpdateUserFields(us[userID], adminUser, req) EXCEPT !.role = req.role])
         ELSE saved

\* Mutant: the requested role is stored without being validated.
UpdateUserAnyRole(us, adminUser, userID, req) ==
    IF ~IsAdmin(adminUser) THEN [err |-> ErrNotAuthorized, users |-> us, id |-> NoUser]
    ELSE IF GetByID(us, userID) = NoUser THEN [err |-> ErrUserNotFound, users |-> us, id |-> NoUser]
    ELSE IF AdminTargetDenied(us[userID], adminUser)
         THEN [err |-> ErrNotAuthorized, users |-> us, id |-> NoUser]
    ELSE LET user == UpdateUserFields(us[userID], adminUser, req) IN
         IF req.role # ""
         THEN IF req.role = "admin" /\ adminUser.role # "admin"
              THEN [err |-> ErrNotAuthorized, users |-> us, id |-> NoUser]
              ELSE Update(us, [user EXCEPT !.role = req.role])
         ELSE Update(us, user)

UpdateUser(us, adminUser, userID, req) ==
    IF ~IsAdmin(adminUser) THEN [err |-> ErrNotAuthorized, users |-> us, id |-> NoUser]
    ELSE IF GetByID(us, userID) = NoUser THEN [err |-> ErrUserNotFound, users |-> us, id |-> NoUser]
    ELSE IF AdminTargetDenied(us[userID], adminUser)
         THEN [err |-> ErrNotAuthorized, users |-> us, id |-> NoUser]
    ELSE LET user == UpdateUserFields(us[userID], adminUser, req) IN
         IF req.role # ""
         THEN IF req.role \notin validRoles
              THEN [err |-> ErrInvalidRole, users |-> us, id |-> NoUser]
              ELSE IF req.role = "admin" /\ adminUser.role # "admin"
              THEN [err |-> ErrNotAuthorized, users |-> us, id |-> NoUser]
              ELSE Update(us, [user EXCEPT !.role = req.role])
         ELSE Update(us, user)

DeactivateUser(us, adminUser, userID) ==
    IF ~IsAdmin(adminUser) THEN [err |-> ErrNotAuthorized, users |-> us, id |-> NoUser]
    ELSE IF GetByID(us, userID) = NoUser THEN [err |-> ErrUserNotFound, users |-> us, id |-> NoUser]
    ELSE IF AdminTargetDenied(us[userID], adminUser)
         THEN [err |-> ErrNotAuthorized, users |-> us, id |-> NoUser]
    ELSE IF userID = adminUser.id THEN [err |-> ErrSelfProtection, users |-> us, id |-> NoUser]
    ELSE Update(us, [us[userID] EXCEPT !.active = FALSE])

ActivateUser(us, adminUser, userID) ==
    IF ~IsAdmin(adminUser) THEN [err |-> ErrNotAuthorized, users |-> us, id |-> NoUser]
    ELSE IF GetByID(us, userID) = NoUser THEN [err |-> ErrUserNotFound, users |-> us, id |-> NoUser]
    ELSE Update(us, [us[userID] EXCEPT !.active = TRUE])

DeleteUser(us, adminUser, userID) ==
    IF ~IsAdmin(adminUser) THEN [err |-> ErrNotAuthorized, users |-> us, id |-> NoUser]
    ELSE IF GetByID(us, userID) = NoUser THEN [err |-> ErrUserNotFound, users |-> us, id |-> NoUser]
    ELSE IF AdminTargetDenied(us[userID], adminUser)
         THEN [err |-> ErrNotAuthorized, users |-> us, id |-> NoUser]
    ELSE IF userID = adminUser.id THEN [err |-> ErrSelfProtection, users |-> us, id |-> NoUser]
    ELSE Delete(us, userID)

\* Mutant: the promotion sets the flag and leaves the role.
PromoteToAdminFlagOnly(us, adminUser, userID) ==
    IF ~IsAdmin(adminUser) \/ adminUser.role # "admin"
    THEN [err |-> ErrNotAuthorized, users |-> us, id |-> NoUser]
    ELSE IF GetByID(us, userID) = NoUser THEN [err |-> ErrUserNotFound, users |-> us, id |-> NoUser]
    ELSE Update(us, [us[userID] EXCEPT !.isAdmin = TRUE])

\* Mutant: every admin may promote, not only one with the role admin.
PromoteToAdminAnyAdmin(us, adminUser, userID) ==
    IF ~IsAdmin(adminUser)
    THEN [err |-> ErrNotAuthorized, users |-> us, id |-> NoUser]
    ELSE IF GetByID(us, userID) = NoUser THEN [err |-> ErrUserNotFound, users |-> us, id |-> NoUser]
    ELSE Update(us, [us[userID] EXCEPT !.isAdmin = TRUE, !.role = "admin"])

PromoteToAdmin(us, adminUser, userID) ==
    IF ~IsAdmin(adminUser) \/ adminUser.role # "admin"
    THEN [err |-> ErrNotAuthorized, users |-> us, id |-> NoUser]
    ELSE IF GetByID(us, userID) = NoUser THEN [err |-> ErrUserNotFound, users |-> us, id |-> NoUser]
    ELSE Update(us, [us[userID] EXCEPT !.isAdmin = TRUE, !.role = "admin"])

DemoteFromAdmin(us, adminUser, userID) ==
    IF ~IsAdmin(adminUser) \/ adminUser.role # "admin"
    THEN [err |-> ErrNotAuthorized, users |-> us, id |-> NoUser]
    ELSE IF GetByID(us, userID) = NoUser THEN [err |-> ErrUserNotFound, users |-> us, id |-> NoUser]
    ELSE IF userID = adminUser.id THEN [err |-> ErrSelfProtection, users |-> us, id |-> NoUser]
    ELSE Update(us, [us[userID] EXCEPT !.isAdmin = FALSE, !.role = "user"])

(***************************************************************************)
(* AuthService: session tokens.                                            *)
(***************************************************************************)
TokenLifetime == 604800

\* The server's signing key; a token's sig is the key it was signed with.
jwtSecret == "JWT_SECRET"

SigningMethodHMAC == {"HS256", "HS384", "HS512"}

\* A token: its claims and the Go types the user_id and email claims decode to
\* ("missing": the claim is absent), its signing method, and the key it is signed with.
Token(uid, uidType, email, emailType, iat, exp, alg, sig) ==
    [uid |-> uid, uidType |-> uidType, email |-> email, emailType |-> emailType,
     iat |-> iat, exp |-> exp, alg |-> alg, sig |-> sig]

NoToken == Token(NoUser, "missing", "", "missing", 0, 0, "", "")

\* The two readings of time.Now() in GenerateJWT, in seconds: the one for exp is taken
\* first, and the clock may pass to the next second before the one for iat.
ClockReads(t) == {[exp |-> t, iat |-> t], [exp |-> t, iat |-> t + 1]}

\* Mutant: the token carries the user ID only.
GenerateJWTOmitsEmail(user, clk) ==
    Token(user.id, "float64", "", "missing", clk.iat, clk.exp + TokenLifetime, "HS256", jwtSecret)

\* A user_id (uint) is a JSON number in the token and decodes to a float64 (exactly,
\* for the IDs of the model); the email is a JSON string.
GenerateJWT(user, clk) ==
    Token(user.id, "float64", user.email, "string", clk.iat, clk.exp + TokenLifetime,
          "HS256", jwtSecret)

\* Mutant: the exp claim is not looked at.
ValidateJWTIgnoresExpiry(token, t) ==
    IF token.alg \notin SigningMethodHMAC THEN [err |-> ErrInvalidToken, uid |-> NoUser, email |-> ""]
    ELSE IF token.sig # jwtSecret THEN [err |-> ErrInvalidToken, uid |-> NoUser, email |-> ""]
    ELSE IF token.uidType # "float64" THEN [err |-> ErrInvalidToken, uid |-> NoUser, email |-> ""]
    ELSE IF token.emailType # "string" THEN [err |-> ErrInvalidToken, uid |-> NoUser, email |-> ""]
    ELSE [err |-> OK, uid |-> token.uid, email |-> token.email]

\* Mutant: the key function returns the secret for every signing method.
ValidateJWTAnyMethod(token, t) ==
    IF token.sig # jwtSecret THEN [err |-> ErrInvalidToken, uid |-> NoUser, email |-> ""]
    ELSE IF ~(t < token.exp) THEN [err |-> ErrInvalidToken, uid |-> NoUser, email |-> ""]
    ELSE IF token.uidType # "float64" THEN [err |-> ErrInvalidToken, uid |-> NoUser, email |-> ""]
    ELSE IF token.emailType # "string" THEN [err |-> ErrInvalidToken, uid |-> NoUser, email |-> ""]
    ELSE [err |-> OK, uid |-> token.uid, email |-> token.email]

\* jwt.Parse with the key function, then the claims: the token is valid when its method
\* is an HMAC one, its signature verifies under the secret, and the clock is before exp;
\* then user_id must be a float64 and email a string.
ValidateJWT(token, t) ==
    IF token.alg \notin SigningMethodHMAC THEN [err |-> ErrInvalidToken, uid |-> NoUser, email |-> ""]
    ELSE IF token.sig # jwtSecret THEN [err |-> ErrInvalidToken, uid |-> NoUser, email |-> ""]
    ELSE IF ~(t < token.exp) THEN [err |-> ErrInvalidToken, uid |-> NoUser, email |-> ""]
    ELSE IF token.uidType # "float64" THEN [err |-> ErrInvalidToken, uid |-> NoUser, email |-> ""]
    ELSE IF token.emailType # "string" THEN [err |-> ErrInvalidToken, uid |-> NoUser, email |-> ""]
    ELSE [err |-> OK, uid |-> token.uid, email |-> token.email]

\* bcrypt.CompareHashAndPassword
CompareHashAndPassword(hash, password) == hash = HashPassword(password)

\* Mutant: last_login_at is stamped as soon as the user is found.
LoginStampsBeforeVerify(us, email, password, clk) ==
    LET id == GetByEmail(us, email) IN
    IF id = NoUser
    THEN [err |-> ErrInvalidCredentials, users |-> us, id |-> NoUser, token |-> NoToken]
    ELSE LET user == [us[id] EXCEPT !.lastLogin = clk.exp] IN
         IF ~CompareHashAndPassword(us[id].password, password)
         THEN [err |-> ErrInvalidCredentials, users |-> Update(us, user).users, id |-> NoUser,
               token |-> NoToken]
         ELSE [err |-> OK, users |-> Update(us, user).users, id |-> id,
               token |-> GenerateJWT(user, clk)]

\* Mutant: a login also marks the email verified.
LoginMarksVerified(us, email, password, clk) ==
    LET id == GetByEmail(us, email) IN
    IF id = NoUser
    THEN [err |-> ErrInvalidCredentials, users |-> us, id |-> NoUser, token |-> NoToken]
    ELSE IF ~CompareHashAndPassword(us[id].password, password)
    THEN [err |-> ErrInvalidCredentials, users |-> us, id |-> NoUser, token |-> NoToken]
    ELSE LET user == [us[id] EXCEPT !.lastLogin = clk.exp, !.verified = TRUE] IN
         [err |-> OK, users |-> Update(us, user).users, id |-> id,
          token |-> GenerateJWT(user, clk)]

\* Login: the error of the Update of last_login_at is dropped by the code.  The clock is
\* read for last_login_at in the second of GenerateJWT's first reading.
Login(us, email, password, clk) ==
    LET id == GetByEmail(us, email) IN
    IF id = NoUser
    THEN [err |-> ErrInvalidCredentials, users |-> us, id |-> NoUser, token |-> NoToken]
    ELSE IF ~CompareHashAndPassword(us[id].password, password)
    THEN [err |-> ErrInvalidCredentials, users |-> us, id |-> NoUser, token |-> NoToken]
    ELSE LET user == [us[id] EXCEPT !.lastLogin = clk.exp] IN
         [err |-> OK, users |-> Update(us, user).users, id |-> id,
          token |-> GenerateJWT(user, clk)]

\* Mutant: Register leaves the duplicate email to the unique index.
RegisterWithoutLookup(us, req) ==
    Create(us, NewUser(req.email, HashPassword(req.password), req.name, "", TRUE, FALSE,
                       FALSE, "", "", "", ""))

\* Mutant: Register stores the password as it was submitted.
RegisterStoresPlaintext(us, req) ==
    LET existingUser == GetByEmail(us, req.email) IN
    IF existingUser # NoUser THEN [err |-> ErrUserExists, users |-> us, id |-> NoUser]
    ELSE Create(us, NewUser(req.email, req.password, req.name, "", TRUE, FALSE,
                            FALSE, "", "", "", ""))

\* Register: the email lookup's error is dropped, and a Create that fails returns the
\* store's error as it is.
Register(us, req) ==
    LET existingUser == GetByEmail(us, req.email) IN
    IF existingUser # NoUser THEN [err |-> ErrUserExists, users |-> us, id |-> NoUser]
    ELSE Create(us, NewUser(req.email, HashPassword(req.password), req.name, "", TRUE, FALSE,
                            FALSE, "", "", "", ""))

\* The binding tags of RegisterRequest: email required, password min=6, names min=2.
BindsRegisterRequest(req) ==
    req.email # "" /\ Len(req.password) >= 6 /\ Len(req.name) >= 2

(***************************************************************************)
(* AuthMiddleware.                                                         *)
(***************************************************************************)
\* The token string of a request: the Bearer header when there is one, else the jwt
\* cookie (NoToken: the header or the cookie is absent).
RequestToken(header, cookie) == IF header # NoToken THEN header ELSE cookie

\* Mutant: the middleware does not look at is_active.
AuthMiddlewareNoActiveCheck(us, header, cookie, t) ==
    LET token == RequestToken(header, cookie)
        claims == ValidateJWT(token, t) IN
    IF token = NoToken THEN [err |-> MsgTokenRequired, uid |-> NoUser]
    ELSE IF claims.err # OK THEN [err |-> MsgInvalidOrExpired, uid |-> NoUser]
    ELSE IF GetByID(us, claims.uid) = NoUser THEN [err |-> MsgUserNotFound, uid |-> NoUser]
    ELSE [err |-> OK, uid |-> claims.uid]

\* The user the middleware puts in the request context, or the reply it aborts with.
AuthMiddleware(us, header, cookie, t) ==
    LET token == RequestToken(header, cookie)
        claims == ValidateJWT(token, t) IN
    IF token = NoToken THEN [err |-> MsgTokenRequired, uid |-> NoUser]
    ELSE IF claims.err # OK THEN [err |-> MsgInvalidOrExpired, uid |-> NoUser]
    ELSE IF GetByID(us, claims.uid) = NoUser THEN [err |-> MsgUserNotFound, uid |-> NoUser]
    ELSE IF ~us[claims.uid].active THEN [err |-> MsgDeactivated, uid |-> NoUser]
    ELSE [err |-> OK, uid |-> claims.uid]

\* Mutant: the optional middleware does not look at is_active.
OptionalAuthMiddlewareNoActiveCheck(us, header, cookie, t) ==
    LET token == RequestToken(header, cookie)
        claims == ValidateJWT(token, t) IN
    IF token = NoToken THEN [err |-> OK, uid |-> NoUser]
    ELSE IF claims.err # OK THEN [err |-> OK, uid |-> NoUser]
    ELSE IF GetByID(us, claims.uid) = NoUser THEN [err |-> OK, uid |-> NoUser]
    ELSE [err |-> OK, uid |-> claims.uid]

\* OptionalAuthMiddleware: the user it puts in the request context, if any; every path
\* ends in c.Next() and none replies.
OptionalAuthMiddleware(us, header, cookie, t) ==
    LET token == RequestToken(header, cookie)
        claims == ValidateJWT(token, t) IN
    IF token = NoToken THEN [err |-> OK, uid |-> NoUser]
    ELSE IF claims.err # OK THEN [err |-> OK, uid |-> NoUser]
    ELSE IF GetByID(us, claims.uid) = NoUser THEN [err |-> OK, uid |-> NoUser]
    ELSE IF ~us[claims.uid].active THEN [err |-> OK, uid |-> NoUser]
    ELSE [err |-> OK, uid |-> claims.uid]

(***************************************************************************)
(* OAuthService.                                                           *)
(***************************************************************************)
\* A provider profile as the service decodes it.  A Google ID is a string and a GitHub
\* ID an int; `bio` stands for GitHub's bio, blog and location.
Profile(id, email, name, picture, bio) ==
    [id |-> id, email |-> email, name |-> name, picture |-> picture, bio |-> bio]

\* What a reply without the profile's members decodes to: every member zero.
ZeroGoogleUser == Profile("", "", "", "", "")

ZeroGitHubUser == Profile(0, "", "", "", "")

\* fmt.Sprintf("%d", id) on the GitHub IDs of the model.
Sprintf_d(n) == CASE n = 0 -> "0" [] n = 1 -> "1" [] n = 2 -> "2"

\* getGitHubUserInfo: an empty profile email is replaced by the primary address of the
\* email list when that request succeeds (primary = "": it failed or has no primary).
getGitHubUserInfo(reply, primary) ==
    IF reply.email = "" THEN [reply EXCEPT !.email = primary] ELSE reply

\* Mutant: the email match is tried before the Google ID match.
findOrCreateGoogleUserEmailFirst(us, googleUser) ==
    LET byID == GetByGoogleID(us, googleUser.id)
        byEmail == GetByEmail(us, googleUser.email) IN
    IF byEmail # NoUser
    THEN Update(us, [us[byEmail] EXCEPT !.googleID = googleUser.id,
                                        !.avatar = IF @ = "" THEN googleUser.picture ELSE @])
    ELSE IF byID # NoUser THEN [err |-> OK, users |-> us, id |-> byID]
    ELSE Create(us, NewUser(googleUser.email, "", googleUser.name, "", TRUE, TRUE, FALSE, "",
                            googleUser.id, "", googleUser.picture))

findOrCreateGoogleUser(us, googleUser) ==
    LET byID == GetByGoogleID(us, googleUser.id)
        byEmail == GetByEmail(us, googleUser.email) IN
    IF byID # NoUser THEN [err |-> OK, users |-> us, id |-> byID]
    ELSE IF byEmail # NoUser
    THEN Update(us, [us[byEmail] EXCEPT !.googleID = googleUser.id,
                                        !.avatar = IF @ = "" THEN googleUser.picture ELSE @])
    ELSE Create(us, NewUser(googleUser.email, "", googleUser.name, "", TRUE, TRUE, FALSE, "",
                            googleUser.id, "", googleUser.picture))

\* Mutant: the link by email always takes the profile's avatar.
findOrCreateGitHubUserOverwriteAvatar(us, githubUser) ==
    LET githubIDStr == Sprintf_d(githubUser.id)
        byID == GetByGitHubID(us, githubIDStr)
        byEmail == IF githubUser.email # "" THEN GetByEmail(us, githubUser.email) ELSE NoUser IN
    IF byID # NoUser THEN [err |-> OK, users |-> us, id |-> byID]
    ELSE IF byEmail # NoUser
    THEN Update(us, [us[byEmail] EXCEPT !.githubID = githubIDStr,
                                        !.avatar = githubUser.picture])
    ELSE Create(us, NewUser(githubUser.email, "", githubUser.name, githubUser.bio, TRUE,
                            githubUser.email # "", FALSE, "", "", githubIDStr,
                            githubUser.picture))

findOrCreateGitHubUser(us, githubUser) ==
    LET githubIDStr == Sprintf_d(githubUser.id)
        byID == GetByGitHubID(us, githubIDStr)
        byEmail == IF githubUser.email # "" THEN GetByEmail(us, githubUser.email) ELSE NoUser IN
    IF byID # NoUser THEN [err |-> OK, users |-> us, id |-> byID]
    ELSE IF byEmail # NoUser
    THEN Update(us, [us[byEmail] EXCEPT !.githubID = githubIDStr,
                                        !.avatar = IF @ = "" THEN githubUser.picture ELSE @])
    ELSE Create(us, NewUser(githubUser.email, "", githubUser.name, githubUser.bio, TRUE,
                            githubUser.email # "", FALSE, "", "", githubIDStr,
                            githubUser.picture))

\* What the provider does with a callback's code: the token exchange fails, or it
\* succeeds and the profile request fails, or both succeed and `profile` is decoded.
ProviderOutcome(exchange, userinfo, profile) ==
    [exchange |-> exchange, userinfo |-> userinfo, profile |-> profile]

\* The outcome of a flow: the error, the table, the user, the session token and the
\* steps that ran.
FlowResult(err, us, id, token, steps) ==
    [err |-> err, users |-> us, id |-> id, token |-> token, steps |-> steps]

\* HandleGoogleCallback / HandleGitHubCallback with the provider's find-or-create
\* result r for the decoded profile.
HandleCallback(us, out, r, clk) ==
    IF ~out.exchange THEN FlowResult(MsgExchange, us, NoUser, NoToken, <<"exchange">>)
    ELSE IF ~out.userinfo
    THEN FlowResult(MsgUserInfo, us, NoUser, NoToken, <<"exchange", "userinfo">>)
    ELSE IF r.err # OK
    THEN FlowResult(MsgFindOrCreate, us, NoUser, NoToken,
                    <<"exchange", "userinfo", "findOrCreate">>)
    ELSE FlowResult(OK, r.users, r.id, GenerateJWT(r.users[r.id], clk),
                    <<"exchange", "userinfo", "findOrCreate", "GenerateJWT">>)

HandleGoogleCallback(us, out, clk) ==
    HandleCallback(us, out, findOrCreateGoogleUser(us, out.profile), clk)

HandleGitHubCallback(us, out, primary, clk) ==
    HandleCallback(us, out, findOrCreateGitHubUser(us, getGitHubUserInfo(out.profile, primary)),
                   clk)

\* The callbacks' check of the state parameter against the oauth_state cookie.
NoCookie == "<no cookie>"

\* Mutant: any state is accepted when the browser has a state cookie.
StateMismatchCookieOnly(state, savedState) == savedState = NoCookie

StateMismatch(state, savedState) == savedState = NoCookie \/ state # savedState

(***************************************************************************)
(* Requests and responses.                                                 *)
(***************************************************************************)
\* User.ToResponse: the UserResponse built from a row.  The literal assigns neither
\* IsAdmin nor Role, so both members have their zero values.
ToResponse(u) ==
    [id |-> u.id, email |-> u.email, name |-> u.name, active |-> u.active,
     verified |-> u.verified, isAdmin |-> FALSE, role |-> "", avatar |-> u.avatar,
     bio |-> u.bio, lastLogin |-> u.lastLogin]

\* The reply carries no user.
NoResponse ==
    [id |-> NoUser, email |-> "", name |-> "", active |-> FALSE, verified |-> FALSE,
     isAdmin |-> FALSE, role |-> "", avatar |-> "", bio |-> "", lastLogin |-> NoTime]

\* The user member of a reply: the row a successful call returned, as a UserResponse.
UserOf(r) == IF r.err = OK THEN ToResponse(r.users[r.id]) ELSE NoResponse

\* No profile reached find-or-create.
NoProfile == [id |-> "", email |-> "", picture |-> ""]

\* The call being answered: the operation, the acting user, the user ID and the role (or
\* other string) it was given, and what it returned: the error and the user.  A session
\* or OAuth call also has the token it carried or issued, the steps of the flow that ran
\* and the provider profile's ID, email and picture; Register and Login have the password they were given.
\* A reply with a user carries it as a UserResponse.
Response(op, actor, target, arg, err, uid) ==
    [op |-> op, actor |-> actor, target |-> target, arg |-> arg, err |-> err, uid |-> uid,
     token |-> NoToken, steps |-> <<>>, profile |-> NoProfile, password |-> "",
     user |-> NoResponse]

\* No call is being answered.
Idle == Response("none", NoUser, NoUser, "", OK, NoUser)

\* The users AuthMiddleware puts in the request context: the handlers pass the context
\* user to AdminService as adminUser.
ContextUsers == {i \in LiveIDs(users) : users[i].active}

\* User IDs a request may name: every row and one ID that was never assigned.
TargetIDs == 1 .. (Len(users) + 1)

PtrBools == {"nil", "true", "false"}

ReqRoles == {"", "user", "moderator", "admin", "superuser"}

\* The name, email and bio of an AdminUpdateUserRequest for target t: the stored values
\* resubmitted, or all three edited.
ReqProfiles(t) ==
    IF t \in DOMAIN users
    THEN {[name |-> users[t].name, email |-> users[t].email, bio |-> users[t].bio],
          [name |-> "Renamed", email |-> "new@example.com", bio |-> "edited"]}
    ELSE {[name |-> "Renamed", email |-> "new@example.com", bio |-> "edited"]}

AdminUpdateUserRequests(t) ==
    {[name |-> p.name, email |-> p.email, bio |-> p.bio, isActive |-> ia,
      isVerified |-> iv, isAdmin |-> ad, role |-> r] :
        p \in ReqProfiles(t), ia \in PtrBools, iv \in {"nil", "false"},
        ad \in PtrBools, r \in ReqRoles}

(***************************************************************************)
(* Initial state.                                                          *)
(***************************************************************************)
Init ==
    /\ nullableIDs \in BOOLEAN
    /\ users = Seed(SeedUsers)
    /\ now = 0
    /\ tokens = {}
    /\ oauthState = NoCookie
    /\ last = Idle
    /\ calls = <<>>

\* The response leaves the server; the next request can be served.
Respond ==
    /\ last # Idle
    /\ last' = Idle
    /\ UNCHANGED <<users, nullableIDs, calls, now, tokens, oauthState>>

(***************************************************************************)
(* AdminService calls, one request at a time.                              *)
(***************************************************************************)
CallGetUserStats(a) ==
    /\ last = Idle
    /\ last' = Response("GetUserStats", a, NoUser, "", GetUserStats(users, users[a]).err, NoUser)
    /\ UNCHANGED <<users, nullableIDs, calls, now, tokens, oauthState>>

CallGetAllUsers(a) ==
    /\ last = Idle
    /\ last' = Response("GetAllUsers", a, NoUser, "", GetAllUsers(users, users[a]).err, NoUser)
    /\ UNCHANGED <<users, nullableIDs, calls, now, tokens, oauthState>>

CallGetUsersByRole(a, role) ==
    /\ last = Idle
    /\ last' = Response("GetUsersByRole", a, NoUser, role,
                        GetUsersByRole(users, users[a], role).err, NoUser)
    /\ UNCHANGED <<users, nullableIDs, calls, now, tokens, oauthState>>

CallSearchUsers(a, query) ==
    /\ last = Idle
    /\ last' = Response("SearchUsers", a, NoUser, query,
                        SearchUsers(users, users[a], query).err, NoUser)
    /\ UNCHANGED <<users, nullableIDs, calls, now, tokens, oauthState>>

CallGetRecentUsers(a) ==
    /\ last = Idle
    /\ last' = Response("GetRecentUsers", a, NoUser, "", GetRecentUsers(users, users[a]).err, NoUser)
    /\ UNCHANGED <<users, nullableIDs, calls, now, tokens, oauthState>>

CallGetUserByID(a, t) ==
    /\ last = Idle
    /\ LET r == AdminGetUserByID(users, users[a], t) IN
        last' = Response("GetUserByID", a, t, "", r.err, MinOf(r.ids))
    /\ UNCHANGED <<users, nullableIDs, calls, now, tokens, oauthState>>

AdminMutation(op, a, t, arg, r) ==
    /\ last = Idle
    /\ users' = r.users
    /\ last' = [Response(op, a, t, arg, r.err, r.id)
                    EXCEPT !.user = IF op = "DeleteUser" THEN NoResponse ELSE UserOf(r)]
    /\ UNCHANGED <<nullableIDs, calls, now, tokens, oauthState>>

CallUpdateUser(a, t, req) ==
    AdminMutation("UpdateUser", a, t, req.role, UpdateUser(users, users[a], t, req))

CallDeactivateUser(a, t) == AdminMutation("DeactivateUser", a, t, "", DeactivateUser(users, users[a], t))

CallActivateUser(a, t) == AdminMutation("ActivateUser", a, t, "", ActivateUser(users, users[a], t))

CallDeleteUser(a, t) == AdminMutation("DeleteUser", a, t, "", DeleteUser(users, users[a], t))

CallPromoteToAdmin(a, t) == AdminMutation("PromoteToAdmin", a, t, "", PromoteToAdmin(users, users[a], t))

CallDemoteFromAdmin(a, t) == AdminMutation("DemoteFromAdmin", a, t, "", DemoteFromAdmin(users, users[a], t))

NextAdmin ==
    \/ Respond
    \/ \E a \in ContextUsers :
            \/ CallGetUserStats(a)
            \/ CallGetAllUsers(a)
            \/ \E role \in ReqRoles \ {""} : CallGetUsersByRole(a, role)
            \/ \E query \in {"Renamed"} : CallSearchUsers(a, query)
            \/ CallGetRecentUsers(a)
            \/ \E t \in TargetIDs :
                \/ CallGetUserByID(a, t)
                \/ \E req \in AdminUpdateUserRequests(t) : CallUpdateUser(a, t, req)
                \/ CallDeactivateUser(a, t)
                \/ CallActivateUser(a, t)
                \/ CallDeleteUser(a, t)
                \/ CallPromoteToAdmin(a, t)
                \/ CallDemoteFromAdmin(a, t)

SpecAdmin == Init /\ [][NextAdmin]_vars

(***************************************************************************)
(* Sessions: Login, authenticated requests, the clock, and the admin calls *)
(* that deactivate, activate and delete.                                   *)
(***************************************************************************)
\* The instants the clock is looked at: a token issued at 0 expires at TokenLifetime.
ClockSamples == {0, TokenLifetime - 1, TokenLifetime}

\* The token set has room for one more token.
TokenRoom(token) == token = NoToken \/ token \in tokens \/ Cardinality(tokens) < MaxTokens

Issue(token) == IF token = NoToken THEN tokens ELSE tokens \cup {token}

Tick ==
    /\ last = Idle
    /\ \E t \in ClockSamples : t > now /\ now' = t
    /\ UNCHANGED <<users, nullableIDs, calls, tokens, oauthState, last>>

LoginEmails == {"admin@example.com", "john.doe@example.com", "nobody@example.com"}

LoginPasswords == {"admin123", "wrong-password"}

CallLogin(email, password) ==
    /\ last = Idle
    /\ \E clk \in ClockReads(now) :
       LET r == Login(users, email, password, clk) IN
        /\ TokenRoom(r.token)
        /\ users' = r.users
        /\ tokens' = Issue(r.token)
        /\ last' = [Response("Login", NoUser, NoUser, email, r.err, r.id)
                        EXCEPT !.token = r.token, !.password = password, !.user = UserOf(r)]
    /\ UNCHANGED <<nullableIDs, calls, now, oauthState>>

\* Tokens nobody issued: a guessed key, an unsigned token, another signing method.
ForgedTokens ==
    {Token(1, "float64", "admin@example.com", "string", 0, 2 * TokenLifetime, f[1], f[2]) :
        f \in {<<"HS256", "guessed">>, <<"none", "">>, <<"RS256", jwtSecret>>}}

PresentedTokens == tokens \cup ForgedTokens \cup {NoToken}

\* A request to a route behind AuthMiddleware.
Request(header, cookie) ==
    /\ last = Idle
    /\ LET r == AuthMiddleware(users, header, cookie, now) IN
        last' = [Response("AuthMiddleware", NoUser, NoUser, "", r.err, r.uid)
                    EXCEPT !.token = RequestToken(header, cookie)]
    /\ UNCHANGED <<users, nullableIDs, calls, now, tokens, oauthState>>

\* A request to a route behind OptionalAuthMiddleware.
OptionalRequest(header, cookie) ==
    /\ last = Idle
    /\ LET r == OptionalAuthMiddleware(users, header, cookie, now) IN
        last' = [Response("OptionalAuthMiddleware", NoUser, NoUser, "", r.err, r.uid)
                    EXCEPT !.token = RequestToken(header, cookie)]
    /\ UNCHANGED <<users, nullableIDs, calls, now, tokens, oauthState>>

\* UpdateUser requests that resubmit the profile and give only is_active.
ActiveOnlyRequests(t) ==
    IF t \notin DOMAIN users THEN {}
    ELSE {[name |-> users[t].name, email |-> users[t].email, bio |-> users[t].bio,
           isActive |-> ia, isVerified |-> "nil", isAdmin |-> "nil", role |-> ""] :
            ia \in PtrBools}

NextSession ==
    \/ Respond
    \/ Tick
    \/ \E email \in LoginEmails, password \in LoginPasswords : CallLogin(email, password)
    \/ \E header \in PresentedTokens, cookie \in PresentedTokens : Request(header, cookie)
    \/ \E header \in PresentedTokens, cookie \in PresentedTokens :
            OptionalRequest(header, cookie)
    \/ \E a \in ContextUsers : \E t \in TargetIDs :
            \/ \E req \in ActiveOnlyRequests(t) : CallUpdateUser(a, t, req)
            \/ CallDeactivateUser(a, t)
            \/ CallActivateUser(a, t)
            \/ CallDeleteUser(a, t)

SpecSession == Init /\ [][NextSession]_vars

(***************************************************************************)
(* The OAuth handlers.                                                     *)
(***************************************************************************)
\* generateState: 16 random bytes in hex.
StateValues == {"s1", "s2"}

QueryStates == StateValues \cup {""}

QueryCodes == {"", "code"}

GoogleProfiles ==
    {Profile(id, email, "Given Family", "picture", "") :
        id \in {"g1", "g2"},
        email \in {"admin@example.com", "john.doe@example.com", "new@example.com"}}
    \cup {ZeroGoogleUser}

GitHubProfiles ==
    {Profile(id, email, "login", "avatar", "bio") :
        id \in {1, 2}, email \in {"", "john.doe@example.com"}}
    \cup {ZeroGitHubUser}

PrimaryEmails == {"", "new@example.com"}

ProviderOutcomes(profiles, zero) ==
    {ProviderOutcome(FALSE, FALSE, zero), ProviderOutcome(TRUE, FALSE, zero)}
    \cup {ProviderOutcome(TRUE, TRUE, profile) : profile \in profiles}

FlowResponse(op, state, r, profile) ==
    [Response(op, NoUser, NoUser, state, r.err, r.id)
        EXCEPT !.token = r.token, !.steps = r.steps,
               !.profile = IF Len(r.steps) >= 3 THEN profile ELSE NoProfile]

OAuthLogin(op, state) ==
    /\ last = Idle
    /\ oauthState' = state
    /\ last' = Response(op, NoUser, NoUser, state, OK, NoUser)
    /\ UNCHANGED <<users, nullableIDs, calls, now, tokens>>

GoogleLogin(state) == OAuthLogin("GoogleLogin", state)

GitHubLogin(state) == OAuthLogin("GitHubLogin", state)

\* GoogleCallback / GitHubCallback, r being what the service returns for the code.
OAuthCallback(op, state, code, r, profile) ==
    /\ last = Idle
    /\ IF StateMismatch(state, oauthState)
       THEN /\ last' = FlowResponse(op, state,
                            FlowResult(MsgInvalidState, users, NoUser, NoToken, <<>>), profile)
            /\ UNCHANGED <<users, tokens, oauthState>>
       ELSE IF code = ""
       THEN /\ oauthState' = NoCookie
            /\ last' = FlowResponse(op, state,
                            FlowResult(MsgNoCode, users, NoUser, NoToken, <<>>), profile)
            /\ UNCHANGED <<users, tokens>>
       ELSE /\ Len(r.users) <= MaxUsers
            /\ TokenRoom(r.token)
            /\ oauthState' = NoCookie
            /\ users' = r.users
            /\ tokens' = Issue(r.token)
            /\ last' = FlowResponse(op, state, r, profile)
    /\ UNCHANGED <<nullableIDs, calls, now>>

GoogleCallback(state, code, out) ==
    \E clk \in ClockReads(now) :
    OAuthCallback("GoogleCallback", state, code, HandleGoogleCallback(users, out, clk),
                  [id |-> out.profile.id, email |-> out.profile.email,
                   picture |-> out.profile.picture])

GitHubCallback(state, code, out, primary) ==
    \E clk \in ClockReads(now) :
    OAuthCallback("GitHubCallback", state, code, HandleGitHubCallback(users, out, primary, clk),
                  [id |-> Sprintf_d(out.profile.id),
                   email |-> getGitHubUserInfo(out.profile, primary).email,
                   picture |-> out.profile.picture])

NextOAuth ==
    \/ Respond
    \/ \E state \in StateValues : GoogleLogin(state) \/ GitHubLogin(state)
    \/ \E state \in QueryStates, code \in QueryCodes :
            \/ \E out \in ProviderOutcomes(GoogleProfiles, ZeroGoogleUser) :
                    GoogleCallback(state, code, out)
            \/ \E out \in ProviderOutcomes(GitHubProfiles, ZeroGitHubUser) :
                \E primary \in PrimaryEmails :
                    GitHubCallback(state, code, out, primary)

SpecOAuth == Init /\ [][NextOAuth]_vars

(***************************************************************************)
(* Accounts: Register, Login, the OAuth flows and the admin's DeleteUser.  *)
(***************************************************************************)
AccountEmails == {"admin@example.com", "john.doe@example.com", "new@example.com"}

RegisterRequests ==
    {[email |-> email, password |-> password, name |-> "Al"] :
        email \in AccountEmails, password \in {"secret1", "short"}}

\* A registration under the seeded admin's email in another letter case.
CaseVariantRequest == [email |-> "Admin@Example.com", password |-> "secret1", name |-> "Al"]

\* The Register handler: bind, AuthService.Register, then the session token.
CallRegister(req) ==
    /\ last = Idle
    /\ IF ~BindsRegisterRequest(req)
       THEN /\ last' = [Response("Register", NoUser, NoUser, req.email, MsgBadRequest, NoUser)
                            EXCEPT !.password = req.password]
            /\ UNCHANGED <<users, tokens>>
       ELSE \E clk \in ClockReads(now) :
            LET r == Register(users, req)
                token == IF r.err = OK THEN GenerateJWT(r.users[r.id], clk) ELSE NoToken IN
            /\ Len(r.users) <= MaxUsers
            /\ TokenRoom(token)
            /\ users' = r.users
            /\ tokens' = Issue(token)
            /\ last' = [Response("Register", NoUser, NoUser, req.email, r.err, r.id)
                            EXCEPT !.token = token, !.password = req.password,
                                   !.user = UserOf(r)]
    /\ UNCHANGED <<nullableIDs, calls, now, oauthState>>

\* The profiles of two provider accounts: with the email of a seeded user, with an
\* email of its own (Google) or with none.
AccountGoogleProfiles ==
    {Profile("g1", email, "Given Family", "picture", "") :
        email \in {"", "john.doe@example.com", "new@example.com"}}

AccountGitHubProfiles ==
    {Profile(1, email, "login", "avatar", "bio") : email \in {"", "john.doe@example.com"}}

NextAccounts ==
    \/ Respond
    \/ \E req \in RegisterRequests : CallRegister(req)
    \/ CallRegister(CaseVariantRequest)
    \/ \E email \in AccountEmails, password \in LoginPasswords \cup {"secret1"} :
            CallLogin(email, password)
    \/ \E a \in ContextUsers : \E t \in TargetIDs : CallDeleteUser(a, t)
    \/ GoogleLogin("s1") \/ GitHubLogin("s1")
    \/ \E out \in ProviderOutcomes(AccountGoogleProfiles, ZeroGoogleUser) :
            GoogleCallback("s1", "code", out)
    \/ \E out \in ProviderOutcomes(AccountGitHubProfiles, ZeroGitHubUser) :
            GitHubCallback("s1", "code", out, "")

SpecAccounts == Init /\ [][NextAccounts]_vars

(***************************************************************************)
(* The token service by itself: GenerateJWT and ValidateJWT applied to     *)
(* identities, clock values and tokens, and requests carrying the tokens.  *)
(***************************************************************************)
\* The ID and email of the users GenerateJWT is called with.
TokenSubjects ==
    {[id |-> id, email |-> email] : id \in {1, 2}, email \in {"admin@example.com", ""}}

\* The instants ValidateJWT is called at: before, at and after the expiry of a token
\* issued at 0.
TokenClockSamples == {0, TokenLifetime - 1, TokenLifetime, TokenLifetime + 1}

TokenTick ==
    /\ last = Idle
    /\ \E t \in TokenClockSamples : t > now /\ now' = t
    /\ UNCHANGED <<users, nullableIDs, calls, tokens, oauthState, last>>

CallGenerateJWT(user) ==
    /\ last = Idle
    /\ \E clk \in ClockReads(now) :
        LET token == GenerateJWT(user, clk) IN
        /\ TokenRoom(token)
        /\ tokens' = Issue(token)
        /\ last' = [Response("GenerateJWT", NoUser, user.id, user.email, OK, user.id)
                        EXCEPT !.token = token]
    /\ UNCHANGED <<users, nullableIDs, calls, now, oauthState>>

\* Tokens signed with the server's key that GenerateJWT does not produce: another HMAC
\* method, and claims that are absent or of another type.
MalformedTokens ==
    {Token(1, "float64", "admin@example.com", "string", 0, 2 * TokenLifetime, alg, jwtSecret) :
        alg \in {"HS384", "HS512"}}
    \cup {Token(1, m[1], "admin@example.com", m[2], 0, 2 * TokenLifetime, "HS256", jwtSecret) :
            m \in {<<"missing", "string">>, <<"string", "string">>,
                   <<"float64", "missing">>, <<"float64", "float64">>}}

ValidatedTokens == tokens \cup ForgedTokens \cup MalformedTokens

\* ValidateJWT as the middlewares call it; the response has the claims it returned.
CallValidateJWT(token) ==
    /\ last = Idle
    /\ LET r == ValidateJWT(token, now) IN
        last' = [Response("ValidateJWT", NoUser, NoUser, r.email, r.err, r.uid)
                    EXCEPT !.token = token]
    /\ UNCHANGED <<users, nullableIDs, calls, now, tokens, oauthState>>

NextToken ==
    \/ Respond
    \/ TokenTick
    \/ \E user \in TokenSubjects : CallGenerateJWT(user)
    \/ \E token \in ValidatedTokens : CallValidateJWT(token)
    \/ \E header \in ValidatedTokens \cup {NoToken} : Request(header, NoToken)

SpecToken == Init /\ [][NextToken]_vars

(***************************************************************************)
(* Concurrent requests.  gin serves each request on its own goroutine and  *)
(* the services take no lock, so calls interleave at their repository      *)
(* calls; each repository call is one statement of the database.           *)
(***************************************************************************)
NoRow == NewUser("", "", "", "", FALSE, FALSE, FALSE, "", "", "", "")

\* A call in progress: what it was given, the repository call it makes next (pc), the
\* row it holds in memory, what it returned, and the table as it was when the
\* concurrent calls began.  `key` is the provider ID as the repository is asked for it.
Call(op, key, email, password, name, picture, bio, pc) ==
    [op |-> op, key |-> key, email |-> email, password |-> password, name |-> name,
     picture |-> picture, bio |-> bio, pc |-> pc, row |-> NoRow, err |-> OK,
     uid |-> NoUser, start |-> users]

RegisterCall(req) == Call("Register", "", req.email, req.password, req.name, "", "", "GetByEmail")

GoogleCall(googleUser) ==
    Call("findOrCreateGoogleUser", googleUser.id, googleUser.email, "", googleUser.name,
         googleUser.picture, "", "GetByProviderID")

GitHubCall(githubUser) ==
    Call("findOrCreateGitHubUser", Sprintf_d(githubUser.id), githubUser.email, "",
         githubUser.name, githubUser.picture, githubUser.bio, "GetByProviderID")

ConcurrentCalls ==
    {RegisterCall([email |-> email, password |-> "secret1", name |-> "Al"]) :
        email \in {"admin@example.com", "new@example.com"}}
    \cup {GoogleCall(Profile("g1", email, "Given Family", "picture", "")) :
            email \in {"admin@example.com", "new@example.com"}}
    \cup {GitHubCall(Profile(1, email, "login", "avatar", "bio")) :
            email \in {"", "new@example.com"}}

Done(call, err, uid) == [call EXCEPT !.pc = "done", !.err = err, !.uid = uid]

\* Requests arrive; each is about to make its first repository call.
StartCalls(cs) ==
    /\ last = Idle
    /\ calls = <<>>
    /\ Len(users) <= MaxUsers
    /\ calls' = cs
    /\ UNCHANGED <<users, nullableIDs, now, tokens, oauthState, last>>

\* GetByGoogleID / GetByGitHubID of a find-or-create.
StepGetByProviderID(p) ==
    /\ calls[p].pc = "GetByProviderID"
    /\ LET c == calls[p]
           found == IF c.op = "findOrCreateGoogleUser" THEN GetByGoogleID(users, c.key)
                    ELSE GetByGitHubID(users, c.key) IN
        calls' = [calls EXCEPT ![p] =
                    IF found # NoUser THEN Done(c, OK, found)
                    ELSE IF c.op = "findOrCreateGitHubUser" /\ c.email = ""
                    THEN [c EXCEPT !.pc = "Create"]
                    ELSE [c EXCEPT !.pc = "GetByEmail"]]
    /\ UNCHANGED <<users, nullableIDs, now, tokens, oauthState, last>>

\* GetByEmail of Register or of a find-or-create.
StepGetByEmail(p) ==
    /\ calls[p].pc = "GetByEmail"
    /\ LET c == calls[p]
           found == GetByEmail(users, c.email) IN
        calls' = [calls EXCEPT ![p] =
                    IF found = NoUser THEN [c EXCEPT !.pc = "Create"]
                    ELSE IF c.op = "Register" THEN Done(c, ErrUserExists, NoUser)
                    ELSE [c EXCEPT !.pc = "Update", !.row = users[found]]]
    /\ UNCHANGED <<users, nullableIDs, now, tokens, oauthState, last>>

\* The Update of a find-or-create's link by email: db.Save of the row in memory.
StepUpdate(p) ==
    /\ calls[p].pc = "Update"
    /\ LET c == calls[p]
           linked == IF c.op = "findOrCreateGoogleUser"
                     THEN [c.row EXCEPT !.googleID = c.key]
                     ELSE [c.row EXCEPT !.githubID = c.key]
           r == Update(users, [linked EXCEPT !.avatar = IF @ = "" THEN c.picture ELSE @]) IN
        /\ users' = r.users
        /\ calls' = [calls EXCEPT ![p] = Done(c, r.err, r.id)]
    /\ UNCHANGED <<nullableIDs, now, tokens, oauthState, last>>

\* The Create of Register or of a find-or-create.
StepCreate(p) ==
    /\ calls[p].pc = "Create"
    /\ LET c == calls[p]
           user == CASE c.op = "Register" ->
                        NewUser(c.email, HashPassword(c.password), c.name, "", TRUE, FALSE,
                                FALSE, "", "", "", "")
                     [] c.op = "findOrCreateGoogleUser" ->
                        NewUser(c.email, "", c.name, "", TRUE, TRUE, FALSE, "", c.key, "",
                                c.picture)
                     [] c.op = "findOrCreateGitHubUser" ->
                        NewUser(c.email, "", c.name, c.bio, TRUE, c.email # "", FALSE, "",
                                "", c.key, c.picture)
           r == Create(users, user) IN
        /\ users' = r.users
        /\ calls' = [calls EXCEPT ![p] = Done(c, r.err, r.id)]
    /\ UNCHANGED <<nullableIDs, now, tokens, oauthState, last>>

\* Every call has returned; the responses leave the server.
Settle ==
    /\ calls # <<>>
    /\ \A p \in DOMAIN calls : calls[p].pc = "done"
    /\ calls' = <<>>
    /\ UNCHANGED <<users, nullableIDs, now, tokens, oauthState, last>>

NextConcurrent ==
    \/ \E n \in 2 .. NumCallers : \E cs \in [1 .. n -> ConcurrentCalls] : StartCalls(cs)
    \/ \E p \in DOMAIN calls :
            \/ StepGetByProviderID(p)
            \/ StepGetByEmail(p)
            \/ StepUpdate(p)
            \/ StepCreate(p)
    \/ Settle

SpecConcurrent == Init /\ [][NextConcurrent]_vars

(***************************************************************************)
(* One federation callback step by step.  The handler verifies the state,  *)
(* then the service waits for the provider's answer to the code exchange,  *)
(* to the profile request and (GitHub, no public email) to the email-list  *)
(* request, resolves the Identity and signs the session token.  The three  *)
(* requests to the provider are made with context.Background() and with    *)
(* http clients that have no Timeout, and the server is started with       *)
(* http.ListenAndServe: a request returns when the provider answers or the *)
(* connection fails, and nothing else ends the wait.                       *)
(***************************************************************************)
FlowStates == {"s1", "s2"}

FlowGoogleProfiles ==
    {Profile("g1", email, "Given Family", "picture", "") :
        email \in {"john.doe@example.com", "new@example.com"}}
    \cup {ZeroGoogleUser}

FlowGitHubProfiles ==
    {Profile(1, email, "login", "avatar", "bio") : email \in {"", "john.doe@example.com"}}
    \cup {ZeroGitHubUser}

\* A callback in progress: the step it is at (pc), the steps it has completed, the
\* profile decoded so far (googleUser or githubUser, zero until then), the row
\* find-or-create returned, and the table and the token set as they were when the
\* request arrived.
FlowCall(op, state) ==
    [op |-> op, state |-> state, pc |-> "Exchange", steps |-> <<>>,
     googleUser |-> ZeroGoogleUser, githubUser |-> ZeroGitHubUser,
     row |-> NoRow, start |-> users, issued |-> tokens]

\* The profile as the response echoes it.
FlowProfile(f) ==
    IF Len(f.steps) < 3 THEN NoProfile
    ELSE IF f.op = "GoogleCallback"
    THEN [id |-> f.googleUser.id, email |-> f.googleUser.email,
          picture |-> f.googleUser.picture]
    ELSE [id |-> Sprintf_d(f.githubUser.id), email |-> f.githubUser.email,
          picture |-> f.githubUser.picture]

\* The service returns and the handler answers: 500 with the error, or the jwt cookie.
FlowReturns(f, err, uid, token) ==
    /\ calls' = <<>>
    /\ last' = [Response(f.op, NoUser, NoUser, f.state, err, uid)
                    EXCEPT !.token = token, !.steps = f.steps, !.profile = FlowProfile(f)]

\* GoogleCallback / GitHubCallback up to the call of the service.
CallbackArrives(op, state, code) ==
    /\ last = Idle
    /\ calls = <<>>
    /\ Len(users) < MaxUsers
    /\ Cardinality(tokens) < MaxTokens
    /\ IF StateMismatch(state, oauthState)
       THEN /\ last' = Response(op, NoUser, NoUser, state, MsgInvalidState, NoUser)
            /\ UNCHANGED <<oauthState, calls>>
       ELSE IF code = ""
       THEN /\ oauthState' = NoCookie
            /\ last' = Response(op, NoUser, NoUser, state, MsgNoCode, NoUser)
            /\ UNCHANGED calls
       ELSE /\ oauthState' = NoCookie
            /\ calls' = <<FlowCall(op, state)>>
            /\ UNCHANGED last
    /\ UNCHANGED <<users, nullableIDs, now, tokens>>

\* config.Exchange returns: the provider answered the token request (ok) or refused it.
ExchangeReturns(ok) ==
    /\ calls # <<>>
    /\ calls[1].pc = "Exchange"
    /\ LET f == [calls[1] EXCEPT !.steps = Append(@, "exchange")] IN
       IF ok
       THEN calls' = <<[f EXCEPT !.pc = "getUserInfo"]>> /\ UNCHANGED last
       ELSE FlowReturns(f, MsgExchange, NoUser, NoToken)
    /\ UNCHANGED <<users, nullableIDs, now, tokens, oauthState>>

\* The profile request returns: an error (ok = FALSE), or a reply decoded into the
\* profile.  getGitHubUserInfo goes on to the email list when the profile has no email.
UserInfoReturns(ok, reply) ==
    /\ calls # <<>>
    /\ calls[1].pc = "getUserInfo"
    /\ IF ~ok
       THEN FlowReturns([calls[1] EXCEPT !.steps = Append(@, "userinfo")],
                        MsgUserInfo, NoUser, NoToken)
       ELSE /\ calls' = <<IF calls[1].op = "GoogleCallback"
                          THEN [calls[1] EXCEPT !.googleUser = reply, !.pc = "findOrCreate",
                                                !.steps = Append(@, "userinfo")]
                          ELSE IF reply.email = ""
                          THEN [calls[1] EXCEPT !.githubUser = reply,
                                                !.pc = "getGitHubUserEmail"]
                          ELSE [calls[1] EXCEPT !.githubUser = reply, !.pc = "findOrCreate",
                                                !.steps = Append(@, "userinfo")]>>
            /\ UNCHANGED last
    /\ UNCHANGED <<users, nullableIDs, now, tokens, oauthState>>

\* getGitHubUserEmail returns: the primary address, or "" for an error or no primary.
UserEmailReturns(primary) ==
    /\ calls # <<>>
    /\ calls[1].pc = "getGitHubUserEmail"
    /\ calls' = <<[calls[1] EXCEPT !.githubUser = getGitHubUserInfo(@, primary),
                                   !.pc = "findOrCreate",
                                   !.steps = Append(@, "userinfo")]>>
    /\ UNCHANGED <<users, nullableIDs, now, tokens, oauthState, last>>

\* Mutant: a failed find-or-create is tried again.
FlowFindOrCreateRetries ==
    /\ calls # <<>>
    /\ calls[1].pc = "findOrCreate"
    /\ Len(calls[1].steps) < 4
    /\ LET f == [calls[1] EXCEPT !.steps = Append(@, "findOrCreate")]
           r == IF f.op = "GoogleCallback"
                THEN findOrCreateGoogleUser(users, f.googleUser)
                ELSE findOrCreateGitHubUser(users, f.githubUser) IN
       IF r.err # OK
       THEN calls' = <<f>> /\ UNCHANGED <<users, last>>
       ELSE /\ users' = r.users
            /\ calls' = <<[f EXCEPT !.pc = "GenerateJWT", !.row = r.users[r.id]]>>
            /\ UNCHANGED last
    /\ UNCHANGED <<nullableIDs, now, tokens, oauthState>>

\* findOrCreateGoogleUser / findOrCreateGitHubUser on the decoded profile.
FlowFindOrCreate ==
    /\ calls # <<>>
    /\ calls[1].pc = "findOrCreate"
    /\ LET f == [calls[1] EXCEPT !.steps = Append(@, "findOrCreate")]
           r == IF f.op = "GoogleCallback"
                THEN findOrCreateGoogleUser(users, f.googleUser)
                ELSE findOrCreateGitHubUser(users, f.githubUser) IN
       IF r.err # OK
       THEN FlowReturns(f, MsgFindOrCreate, NoUser, NoToken) /\ UNCHANGED users
       ELSE /\ users' = r.users
            /\ calls' = <<[f EXCEPT !.pc = "GenerateJWT", !.row = r.users[r.id]]>>
            /\ UNCHANGED last
    /\ UNCHANGED <<nullableIDs, now, tokens, oauthState>>

\* GenerateJWT for the resolved user; the handler sets the jwt cookie.
FlowGenerateJWT ==
    /\ calls # <<>>
    /\ calls[1].pc = "GenerateJWT"
    /\ \E clk \in ClockReads(now) :
        LET f == [calls[1] EXCEPT !.steps = Append(@, "GenerateJWT")]
            token == GenerateJWT(f.row, clk) IN
        /\ tokens' = Issue(token)
        /\ FlowReturns(f, OK, f.row.id, token)
    /\ UNCHANGED <<users, nullableIDs, now, oauthState>>

NextFlow ==
    \/ Respond
    \/ calls = <<>> /\ \E state \in FlowStates : GoogleLogin(state) \/ GitHubLogin(state)
    \/ \E op \in {"GoogleCallback", "GitHubCallback"}, state \in FlowStates,
          code \in QueryCodes : CallbackArrives(op, state, code)
    \/ \E ok \in BOOLEAN : ExchangeReturns(ok)
    \/ \E ok \in BOOLEAN :
          \E reply \in IF calls # <<>> /\ calls[1].op = "GoogleCallback"
                        THEN FlowGoogleProfiles ELSE FlowGitHubProfiles :
              UserInfoReturns(ok, reply)
    \/ \E primary \in PrimaryEmails : UserEmailReturns(primary)
    \/ FlowFindOrCreate
    \/ FlowGenerateJWT

SpecFlow == Init /\ [][NextFlow]_vars

\* The request's goroutine is scheduled: each of its own steps is taken once it is
\* enabled.  The provider's answers are the environment's and are not assumed to come,
\* and the code sets no timer that would end the wait for one.
SpecFlowFair == SpecFlow /\ WF_vars(FlowFindOrCreate) /\ WF_vars(FlowGenerateJWT)

(***************************************************************************)
(* Identities through all their writers: Register, Login, UpdateProfile,   *)
(* the federation callbacks and the AdminService mutations, one request at *)
(* a time.                                                                 *)
(***************************************************************************)
\* AuthService.UpdateProfile: the names and the profile fields of the row read by ID.
UpdateProfile(us, userID, req) ==
    IF GetByID(us, userID) = NoUser THEN [err |-> ErrUserNotFound, users |-> us, id |-> NoUser]
    ELSE Update(us, [us[userID] EXCEPT !.name = req.name, !.bio = req.bio])

\* The UpdateProfile handler for the user AuthMiddleware put in the context.
CallUpdateProfile(a, req) ==
    /\ last = Idle
    /\ LET r == UpdateProfile(users, a, req) IN
        /\ users' = r.users
        /\ last' = [Response("UpdateProfile", a, a, req.name, r.err, r.id)
                        EXCEPT !.user = UserOf(r)]
    /\ UNCHANGED <<nullableIDs, calls, now, tokens, oauthState>>

\* A registration with an email of its own.
IdentityRegisterRequests ==
    {[email |-> "new@example.com", password |-> "secret1", name |-> "Al"]}

\* AdminUpdateUserRequests that resubmit the stored names, email and bio and carry an
\* admin flag or a role.
RoleRequests(t) ==
    IF t \notin DOMAIN users THEN {}
    ELSE {[name |-> users[t].name, email |-> users[t].email, bio |-> users[t].bio,
           isActive |-> "nil", isVerified |-> "nil", isAdmin |-> x[1], role |-> x[2]] :
            x \in {<<"true", "">>, <<"nil", "admin">>, <<"nil", "moderator">>,
                   <<"nil", "superuser">>}}

NextIdentity ==
    \/ Respond
    \/ /\ Cardinality(tokens) < MaxIdentityTokens
       /\ \/ \E req \in IdentityRegisterRequests : CallRegister(req)
          \/ CallLogin("john.doe@example.com", "admin123")
          \/ GoogleCallback("s1", "code", ProviderOutcome(TRUE, TRUE,
                    Profile("g1", "new@example.com", "Given Family", "picture", "")))
          \/ GitHubCallback("s1", "code", ProviderOutcome(TRUE, TRUE,
                    Profile(1, "john.doe@example.com", "login", "avatar", "bio")), "")
    \/ GoogleLogin("s1")
    \/ \E a \in ContextUsers :
          \/ /\ users[a].email = "john.doe@example.com"
             /\ CallUpdateProfile(a, [name |-> "Renamed", bio |-> "edited"])
          \/ \E t \in TargetIDs :
                \/ \E req \in RoleRequests(t) : CallUpdateUser(a, t, req)
                \/ CallPromoteToAdmin(a, t)
                \/ CallDemoteFromAdmin(a, t)
                \/ /\ users[a].role # "admin"
                   /\ \/ CallDeactivateUser(a, t)
                      \/ CallActivateUser(a, t)
                      \/ CallDeleteUser(a, t)

SpecIdentity == Init /\ [][NextIdentity]_vars

(***************************************************************************)
(* Writers of one row.  Login, UpdateProfile, the link of a find-or-create *)
(* and the AdminService mutations all read the row, change fields of the   *)
(* copy in memory and write it back with Update (db.Save: every column).   *)
(***************************************************************************)
\* A call in progress that was made by the context user `actor` for the user `target`.
WriterCall(op, actor, target, email, password, name, bio) ==
    Call(op, "", email, password, name, "", bio, "Read") @@ [actor |-> actor, target |-> target]

\* The link of a Google account whose profile carries the email of a seeded user.
LinkCall(googleUser) == GoogleCall(googleUser) @@ [actor |-> NoUser, target |-> NoUser]

\* The admin's decisions on user 2.
AdminWriterCalls ==
    {WriterCall(op, 1, 2, "", "", "", "") : op \in {"DeactivateUser", "DemoteFromAdmin"}}

\* The requests of user 2 itself.
UserWriterCalls ==
    {WriterCall("Login", NoUser, NoUser, "john.doe@example.com", "admin123", "", ""),
     WriterCall("UpdateProfile", 2, 2, "", "", "Renamed", "edited"),
     LinkCall(Profile("g1", "john.doe@example.com", "Given Family", "picture", ""))}

\* An admin request and requests of the user arrive together.
StartWriters(cs) ==
    /\ last = Idle
    /\ calls = <<>>
    /\ cs[1] \in AdminWriterCalls
    /\ \A p \in DOMAIN cs \ {1} : cs[p] \in UserWriterCalls
    /\ calls' = cs
    /\ UNCHANGED <<users, nullableIDs, now, tokens, oauthState, last>>

\* What the call does between its read of the row and its Update: the service applied
\* to the table as it is read.
WriterReads(c, clk) ==
    CASE c.op = "Login" -> Login(users, c.email, c.password, clk)
      [] c.op = "UpdateProfile" -> UpdateProfile(users, c.target, [name |-> c.name, bio |-> c.bio])
      [] c.op = "DeactivateUser" -> DeactivateUser(users, users[c.actor], c.target)
      [] c.op = "DemoteFromAdmin" -> DemoteFromAdmin(users, users[c.actor], c.target)

\* GetByEmail / GetByID and the assignments to the copy in memory.
StepRead(p) ==
    /\ calls[p].pc = "Read"
    /\ \E clk \in ClockReads(now) :
        LET c == calls[p]
            r == WriterReads(c, clk) IN
        calls' = [calls EXCEPT ![p] =
                    IF r.err # OK THEN Done(c, r.err, NoUser)
                    ELSE [c EXCEPT !.pc = "Save", !.row = r.users[r.id], !.uid = r.id]]
    /\ UNCHANGED <<users, nullableIDs, now, tokens, oauthState, last>>

\* userRepo.Update of the copy in memory; Login drops its error and signs the token.
StepSave(p) ==
    /\ calls[p].pc = "Save"
    /\ LET c == calls[p]
           r == Update(users, c.row) IN
        /\ users' = r.users
        /\ calls' = [calls EXCEPT ![p] =
                        Done(c, IF c.op = "Login" THEN OK ELSE r.err, c.uid)]
        /\ IF c.op = "Login"
           THEN \E clk \in ClockReads(now) :
                    /\ TokenRoom(GenerateJWT(c.row, clk))
                    /\ tokens' = Issue(GenerateJWT(c.row, clk))
           ELSE UNCHANGED tokens
    /\ UNCHANGED <<nullableIDs, now, oauthState, last>>

NextWriters ==
    \/ Respond
    \/ /\ calls = <<>>
       /\ \/ CallPromoteToAdmin(1, 2)
          \/ CallActivateUser(1, 2)
    \/ \E n \in 2 .. NumCallers : \E cs \in [1 .. n -> AdminWriterCalls \cup UserWriterCalls] :
            StartWriters(cs)
    \/ \E p \in DOMAIN calls :
            \/ StepRead(p)
            \/ StepSave(p)
            \/ StepGetByProviderID(p)
            \/ StepGetByEmail(p)
            \/ StepUpdate(p)
    \/ Settle

SpecWriters == Init /\ [][NextWriters]_vars

(***************************************************************************)
(* Claims about AdminService.                                              *)
(***************************************************************************)
AdminReadOps == {"GetUserStats", "GetAllUsers", "GetUsersByRole", "SearchUsers",
                 "GetRecentUsers", "GetUserByID"}

AdminWriteOps == {"UpdateUser", "DeactivateUser", "ActivateUser", "DeleteUser",
                  "PromoteToAdmin", "DemoteFromAdmin"}

AdminOps == AdminReadOps \cup AdminWriteOps

\* The two predicates of the authorization policy, as the specification states them.
Privileged(identity) == identity.role = "admin" \/ identity.isAdmin

SuperAdmin(identity) == identity.role = "admin"

\* The step answers an AdminService call of `ops` by actor a on user ID t.
AdminStep(ops, a, t) ==
    last = Idle /\ last'.op \in ops /\ last'.actor = a /\ last'.target = t

\* C2 (as claimed): no AdminService call whose target is the actor itself sets the
\* actor's active flag to false, deletes the actor, or removes the actor's admin role
\* or admin flag.
C2_SelfProtection ==
    [][\A a \in ContextUsers :
          AdminStep(AdminWriteOps, a, a) =>
              /\ users'[a].active
              /\ ~users'[a].deleted
              /\ (users[a].role = "admin" => users'[a].role = "admin")
              /\ (users[a].isAdmin => users'[a].isAdmin)]_vars

\* C3 (as claimed): UpdateUser, DeactivateUser, ActivateUser and DeleteUser on another
\* identity that is privileged (role admin or isAdmin), by an actor whose role is not
\* admin, are denied and leave the table unchanged.
C3_PrivilegedTargetNeedsSuperAdmin ==
    [][\A a \in ContextUsers : \A t \in LiveIDs(users) \ {a} :
          ( /\ Privileged(users[t])
            /\ ~SuperAdmin(users[a])
            /\ AdminStep({"UpdateUser", "DeactivateUser", "ActivateUser", "DeleteUser"}, a, t) )
          => (last'.err # OK /\ users' = users)]_vars

\* C4 (as claimed): an actor whose role is not admin gets NotAuthorized from
\* PromoteToAdmin, DemoteFromAdmin and UpdateUser with role admin on an existing target,
\* and no call by such an actor changes a target's isAdmin flag or moves its role to or
\* from admin.
C4_AdminStatusNeedsSuperAdmin ==
    [][\A a \in ContextUsers : \A t \in LiveIDs(users) :
          ~SuperAdmin(users[a]) =>
              /\ ( \/ AdminStep({"PromoteToAdmin", "DemoteFromAdmin"}, a, t)
                   \/ (AdminStep({"UpdateUser"}, a, t) /\ last'.arg = "admin") )
                 => last'.err = ErrNotAuthorized
              /\ AdminStep(AdminWriteOps, a, t) =>
                    /\ users'[t].isAdmin = users[t].isAdmin
                    /\ (users'[t].role = "admin") = (users[t].role = "admin")]_vars

\* C5: an actor that is not privileged (neither role admin nor isAdmin) gets
\* NotAuthorized from every AdminService operation and the table is unchanged; a
\* privileged actor is allowed GetUserStats, GetAllUsers, SearchUsers, GetUsersByRole
\* with a valid role and GetUserByID (which returns the user when it exists).
C5_PrivilegedNecessaryAndSufficientForReads ==
    [][\A a \in ContextUsers : \A t \in TargetIDs \cup {NoUser} :
          /\ (AdminStep(AdminOps, a, t) /\ ~Privileged(users[a]))
             => (last'.err = ErrNotAuthorized /\ users' = users)
          /\ (AdminStep({"GetUserStats", "GetAllUsers", "SearchUsers"}, a, t)
              /\ Privileged(users[a]))
             => last'.err = OK
          /\ (AdminStep({"GetUsersByRole"}, a, t) /\ Privileged(users[a])
              /\ last'.arg \in {"user", "moderator", "admin"})
             => last'.err = OK
          /\ (AdminStep({"GetUserByID"}, a, t) /\ Privileged(users[a]))
             => /\ last'.err # ErrNotAuthorized
                /\ Live(users, t) => (last'.err = OK /\ last'.uid = t)]_vars

\* C5 witness: an actor privileged by the flag alone (role not admin) was allowed a read.
C5_Witness ==
    /\ last.op \in {"GetAllUsers", "GetUserStats", "SearchUsers", "GetUsersByRole", "GetUserByID"}
    /\ last.err = OK
    /\ users[last.actor].isAdmin
    /\ users[last.actor].role # "admin"

\* C6: an AdminService call that returns an error leaves the table exactly as it was;
\* UpdateUser with a role outside {user, moderator, admin} (and not empty, which means
\* "no role given") returns an error, and that error is InvalidRole whenever the actor
\* passed the authorization checks and the target exists.
C6_AllOrNothing ==
    [][/\ (last = Idle /\ last'.op \in AdminOps /\ last'.err # OK) => users' = users
       /\ \A a \in ContextUsers : \A t \in TargetIDs :
            (AdminStep({"UpdateUser"}, a, t)
             /\ last'.arg \notin {"user", "moderator", "admin", ""}) =>
                /\ last'.err # OK
                /\ users' = users
                /\ (Privileged(users[a]) /\ Live(users, t)
                    /\ ~(users[t].isAdmin /\ ~SuperAdmin(users[a])))
                   => last'.err = ErrInvalidRole]_vars

\* C6 witness: UpdateUser with edited fields and an invalid role returned InvalidRole.
C6_Witness ==
    /\ last.op = "UpdateUser"
    /\ last.err = ErrInvalidRole
    /\ last.arg = "superuser"

(***************************************************************************)
(* Claims about sessions.                                                  *)
(***************************************************************************)
\* C1: AuthMiddleware puts a user in the request context only if the token it was given
\* is an issued (unforged) token that has not expired and whose subject exists and is
\* active when the middleware reads the store; so a request carrying an issued token
\* whose subject has been deactivated or deleted is rejected and gets no context user.
C1_AuthenticatesOnlyValidTokenOfActiveSubject ==
    [][(last = Idle /\ last'.op = "AuthMiddleware") =>
          /\ last'.err = OK =>
                /\ last'.token \in tokens
                /\ now < last'.token.exp
                /\ last'.uid = last'.token.uid
                /\ Live(users, last'.uid)
                /\ users[last'.uid].active
          /\ ( /\ last'.token \in tokens
               /\ (~Live(users, last'.token.uid) \/ ~users[last'.token.uid].active) )
             => (last'.err # OK /\ last'.uid = NoUser)]_vars

\* C1 witness: an issued, unexpired token of a user deactivated after it was issued
\* was presented and rejected.
C1_Witness ==
    /\ last.op = "AuthMiddleware"
    /\ last.token \in tokens
    /\ now < last.token.exp
    /\ Live(users, last.token.uid)
    /\ ~users[last.token.uid].active
    /\ last.err = MsgDeactivated
    /\ last.uid = NoUser

(***************************************************************************)
(* Claims about the OAuth flows.                                           *)
(***************************************************************************)
OAuthCallbackOps == {"GoogleCallback", "GitHubCallback"}

\* The steps of HandleGoogleCallback / HandleGitHubCallback in the order of the code.
FlowOrder == <<"exchange", "userinfo", "findOrCreate", "GenerateJWT">>

\* steps is the beginning of FlowOrder: each step at most once, none before its turn.
InFlowOrder(steps) ==
    Len(steps) <= Len(FlowOrder) /\ \A k \in DOMAIN steps : steps[k] = FlowOrder[k]

\* next is steps followed by the one step whose turn it is.
NextInFlowOrder(steps, next) ==
    /\ Len(steps) < Len(FlowOrder)
    /\ next = Append(steps, FlowOrder[Len(steps) + 1])

\* C7: a callback whose state parameter differs from the state issued to the browser,
\* or that comes when no state was issued, fails with the invalid-state error, runs no
\* step of the flow (no code exchange), leaves the users table unchanged and issues no
\* session token.
C7_WrongStateStopsTheFlow ==
    [][( /\ last = Idle
         /\ last'.op \in OAuthCallbackOps
         /\ (oauthState = NoCookie \/ last'.arg # oauthState) )
       => /\ last'.err = MsgInvalidState
          /\ last'.steps = <<>>
          /\ users' = users
          /\ tokens' = tokens
          /\ last'.token = NoToken
          /\ last'.uid = NoUser]_vars

\* C7 witness: a state was issued and a callback with another state was refused.
C7_Witness ==
    /\ last.op \in OAuthCallbackOps
    /\ oauthState \in StateValues
    /\ last.arg \in StateValues
    /\ last.arg # oauthState
    /\ last.err = MsgInvalidState

\* C8 (as claimed): a callback that compares the presented state with an issued one
\* leaves no issued state behind, whether the comparison succeeded or failed.
C8_StateClearedAfterValidation ==
    [][(last = Idle /\ last'.op \in OAuthCallbackOps /\ oauthState # NoCookie)
       => oauthState' = NoCookie]_vars

\* C9: when a live identity A holds the profile's provider ID, the callback that
\* resolves the profile returns A and leaves the users table exactly as it was,
\* whoever holds the profile's email.
C9_KnownProviderIDResolvesUnchanged ==
    [][\A A \in LiveIDs(users) :
          ( /\ last = Idle
            /\ last'.op \in OAuthCallbackOps
            /\ Len(last'.steps) >= 3
            /\ last'.profile.id # ""
            /\ \/ last'.op = "GoogleCallback" /\ users[A].googleID = last'.profile.id
               \/ last'.op = "GitHubCallback" /\ users[A].githubID = last'.profile.id )
          => (last'.err = OK /\ last'.uid = A /\ users' = users)]_vars

\* C9 witness: a Google profile whose ID is held by one identity and whose email is
\* held by another was resolved to the holder of the ID.
C9_Witness ==
    /\ last.op = "GoogleCallback"
    /\ last.err = OK
    /\ last.profile.id # ""
    /\ users[last.uid].googleID = last.profile.id
    /\ \E B \in LiveIDs(users) \ {last.uid} : users[B].email = last.profile.email

\* C10 (as claimed): no callback changes or clears a Google ID or GitHub ID that an
\* identity already has.
C10_ProviderLinkImmutable ==
    [][(last = Idle /\ last'.op \in OAuthCallbackOps) =>
          \A i \in DOMAIN users :
              /\ users[i].googleID # "" => users'[i].googleID = users[i].googleID
              /\ users[i].githubID # "" => users'[i].githubID = users[i].githubID]_vars

(***************************************************************************)
(* Claims about account linking, registration and password login.          *)
(***************************************************************************)
\* The provider-ID column a callback's provider writes.
HoldsProviderID(op, user, id) ==
    IF op = "GoogleCallback" THEN user.googleID = id ELSE user.githubID = id

HoldsKey(call, user) ==
    IF call.op = "findOrCreateGoogleUser" THEN user.googleID = call.key
    ELSE user.githubID = call.key

ResolveOps == {"findOrCreateGoogleUser", "findOrCreateGitHubUser"}

\* When the concurrent calls began, no row had the call's email.
NewEmail(call) ==
    call.email # "" /\ \A i \in DOMAIN call.start : call.start[i].email # call.email

\* When the concurrent calls began, no row had the call's provider ID or its email.
NewProfile(call) ==
    NewEmail(call) /\ \A i \in DOMAIN call.start : ~HoldsKey(call, call.start[i])

\* The rows created since the concurrent calls began that have the call's email or its
\* provider ID.
NewIdentities(call) ==
    {i \in DOMAIN users \ DOMAIN call.start :
        users[i].email = call.email \/ (call.op \in ResolveOps /\ HoldsKey(call, users[i]))}

AllReturned == \A p \in DOMAIN calls : calls[p].pc = "done"

\* The provider-ID columns hold NULL for an identity without the provider's ID.
AbsentProviderIDIsNull == nullableIDs

C13_ConcurrentRegister ==
    \A p \in DOMAIN calls : \A q \in DOMAIN calls \ {p} :
        ( /\ calls[p].op = "Register" /\ calls[q].op = "Register"
          /\ calls[q].email = calls[p].email
          /\ NewEmail(calls[p])
          /\ AbsentProviderIDIsNull
          /\ AllReturned )
        => LET same == {r \in DOMAIN calls :
                            calls[r].op = "Register" /\ calls[r].email = calls[p].email} IN
           /\ Cardinality({i \in DOMAIN users : users[i].email = calls[p].email}) = 1
           /\ Cardinality({r \in same : calls[r].err = OK}) = 1
           /\ \A r \in same : calls[r].err \in {OK, ErrUserExists}

\* A Register request that binds has just been served.
RegisterStep ==
    last = Idle /\ last'.op = "Register" /\ last'.arg # "" /\ Len(last'.password) >= 6

\* C14: Register with the email of an existing (live) Identity returns UserExists,
\* creates no row, changes no row and issues no token.
C14_RegisterExistingEmail ==
    [][(RegisterStep /\ \E i \in DOMAIN users : ~users[i].deleted /\ users[i].email = last'.arg)
        => /\ last'.err = ErrUserExists
           /\ last'.uid = NoUser
           /\ users' = users
           /\ tokens' = tokens
           /\ last'.token = NoToken
    ]_vars

\* Register has refused the email of a live Identity.
C14_Witness ==
    /\ last.op = "Register"
    /\ last.err = ErrUserExists
    /\ \E i \in DOMAIN users : ~users[i].deleted /\ users[i].email = last.arg

C15_LoginFailuresAlike ==
    [][( /\ last = Idle
         /\ last'.op = "Login"
         /\ \A i \in DOMAIN users :
                (~users[i].deleted /\ users[i].email = last'.arg)
                    => users[i].password # "bcrypt:" \o last'.password )
        => /\ last'.err = ErrInvalidCredentials
           /\ last'.uid = NoUser
           /\ last'.token = NoToken
           /\ tokens' = tokens
           /\ users' = users
    ]_vars

\* Login has refused an OAuth-only Identity.
C15_Witness ==
    /\ last.op = "Login"
    /\ last.err = ErrInvalidCredentials
    /\ \E i \in DOMAIN users :
            ~users[i].deleted /\ users[i].email = last.arg /\ users[i].password = ""

(***************************************************************************)
(* Claims about the token service.                                         *)
(***************************************************************************)
\* C16: round trip.  For every identity and every instant of issue up to now, the token
\* GenerateJWT makes for the identity is, while now is before the token's expiry,
\* accepted by ValidateJWT, and the claims returned are the identity's ID and email.
C16_RoundTrip ==
    \A user \in TokenSubjects : \A t \in {i \in TokenClockSamples : i <= now} :
        \A clk \in ClockReads(t) :
            LET token == GenerateJWT(user, clk) IN
            now < token.exp
                => ValidateJWT(token, now) = [err |-> OK, uid |-> user.id, email |-> user.email]

\* ValidateJWT has accepted an issued token at the last second before its expiry.
C16_Witness ==
    /\ last.op = "ValidateJWT"
    /\ last.token \in tokens
    /\ now = last.token.exp - 1
    /\ last.err = OK
    /\ last.uid = last.token.uid /\ last.arg = last.token.email

\* C17: an issued token (signed with the server's key) whose expiry is in the past is
\* rejected by ValidateJWT with InvalidToken and is refused by AuthMiddleware in the
\* header and in the cookie; at every instant strictly before its expiry ValidateJWT
\* accepts it.
C17_ExpiredTokenRejected ==
    \A token \in tokens :
        /\ now > token.exp
            => /\ ValidateJWT(token, now).err = ErrInvalidToken
               /\ AuthMiddleware(users, token, NoToken, now).err # OK
               /\ AuthMiddleware(users, NoToken, token, now).err # OK
        /\ now < token.exp => ValidateJWT(token, now).err = OK

\* A request has presented an issued token after its expiry and was refused.
C17_Witness ==
    /\ last.op = "AuthMiddleware"
    /\ last.token \in tokens
    /\ last.token.sig = "JWT_SECRET"
    /\ now > last.token.exp
    /\ last.err = MsgInvalidOrExpired
    /\ last.uid = NoUser

\* C18 as stated: ValidateJWT rejects with InvalidToken every token whose algorithm is
\* not the one GenerateJWT signs with (HS256), every token not signed with the server's
\* key and every token whose user_id or email claim is missing or of the wrong type; it
\* returns claims only when all checks pass, and InvalidToken otherwise.
C18_RejectsEveryOtherAlgorithm ==
    \A token \in ValidatedTokens :
        LET r == ValidateJWT(token, now) IN
        /\ ( \/ token.alg # "HS256"
             \/ token.sig # "JWT_SECRET"
             \/ token.uidType # "float64"
             \/ token.emailType # "string" ) => r.err = ErrInvalidToken
        /\ r.err \in {OK, ErrInvalidToken}
        /\ r.err # OK => r.uid = NoUser /\ r.email = ""

\* C18 amended: the algorithms rejected are those outside the HMAC family (HS256,
\* HS384, HS512); the rest as stated, and claims are returned only for a token of that
\* family, signed with the server's key, not expired, with a numeric user_id and a
\* string email.
C18_RejectsNonHMACAlgorithms ==
    \A token \in ValidatedTokens :
        LET r == ValidateJWT(token, now) IN
        /\ ( \/ token.alg \notin {"HS256", "HS384", "HS512"}
             \/ token.sig # "JWT_SECRET"
             \/ token.uidType # "float64"
             \/ token.emailType # "string" ) => r.err = ErrInvalidToken
        /\ r.err \in {OK, ErrInvalidToken}
        /\ r.err # OK => r.uid = NoUser /\ r.email = ""
        /\ r.err = OK => /\ token.alg \in {"HS256", "HS384", "HS512"}
                         /\ token.sig = "JWT_SECRET"
                         /\ now < token.exp
                         /\ r.uid = token.uid /\ r.email = token.email

\* ValidateJWT has rejected a token of an asymmetric method whose signature was made
\* with the server's key.
C18_Witness ==
    /\ last.op = "ValidateJWT"
    /\ last.token.alg = "RS256"
    /\ last.token.sig = "JWT_SECRET"
    /\ now < last.token.exp
    /\ last.err = ErrInvalidToken

\* C19: every issued token's exp claim is its iat claim plus 604800 seconds.
C19_ExpiryIsIssuedAtPlusSevenDays ==
    \A token \in tokens : token.exp = token.iat + 604800

(***************************************************************************)
(* Claims about login, the admin status, the store's invariants and the    *)
(* federation flow.                                                        *)
(***************************************************************************)
\* C21: Login with the email of a live Identity and the password whose hash the
\* Identity stores succeeds with that Identity and a token that ValidateJWT, at that
\* instant, maps to the Identity's ID and email; no row changes except that Identity's
\* lastLoginAt.
C21_LoginSucceeds ==
    [][\A i \in DOMAIN users :
        ( /\ last = Idle
          /\ last'.op = "Login"
          /\ ~users[i].deleted
          /\ users[i].email = last'.arg
          /\ users[i].password = "bcrypt:" \o last'.password )
        => /\ last'.err = OK
           /\ last'.uid = i
           /\ last'.token \in tokens'
           /\ ValidateJWT(last'.token, now) = [err |-> OK, uid |-> i, email |-> users[i].email]
           /\ Len(users') = Len(users)
           /\ \A j \in DOMAIN users \ {i} : users'[j] = users[j]
           /\ [users'[i] EXCEPT !.lastLogin = users[i].lastLogin] = users[i]
    ]_vars

\* An Identity created by Register has logged in with the password it registered.
C21_Witness ==
    /\ last.op = "Login"
    /\ last.err = OK
    /\ last.password = "secret1"
    /\ users[last.uid].email = last.arg
    /\ users[last.uid].lastLogin = now
    /\ last.token.uid = last.uid

\* C22: for an actor whose role is admin, PromoteToAdmin on an existing target sets the
\* target's role to admin and isAdmin to true, DemoteFromAdmin on another existing
\* target sets role user and isAdmin false, neither changes another field or row, and
\* both return UserNotFound, changing nothing, when the target does not exist.
C22_PromoteAndDemote ==
    [][\A a \in ContextUsers : \A t \in TargetIDs :
        SuperAdmin(users[a]) =>
          /\ (AdminStep({"PromoteToAdmin"}, a, t) /\ Live(users, t))
             => /\ last'.err = OK
                /\ users' = [users EXCEPT ![t].role = "admin", ![t].isAdmin = TRUE]
          /\ (AdminStep({"DemoteFromAdmin"}, a, t) /\ Live(users, t) /\ t # a)
             => /\ last'.err = OK
                /\ users' = [users EXCEPT ![t].role = "user", ![t].isAdmin = FALSE]
          /\ (AdminStep({"PromoteToAdmin", "DemoteFromAdmin"}, a, t) /\ ~Live(users, t))
             => (last'.err = ErrUserNotFound /\ users' = users)
    ]_vars

\* The seeded admin was demoted by an identity that had been promoted.
C22_Witness ==
    /\ last.op = "DemoteFromAdmin"
    /\ last.err = OK
    /\ last.target # last.actor
    /\ users[last.actor].role = "admin"
    /\ users[last.target].email = "admin@example.com"
    /\ users[last.target].role = "user"
    /\ ~users[last.target].isAdmin

\* C23 (as claimed): DemoteFromAdmin, DeactivateUser and DeleteUser by an actor whose
\* role is admin, aimed at the actor itself, return the NotAuthorized denial, and the
\* actor's role, isAdmin flag, active flag and existence are unchanged.
C23_SelfTargetIsNotAuthorized ==
    [][\A a \in ContextUsers :
        (SuperAdmin(users[a])
         /\ AdminStep({"DemoteFromAdmin", "DeactivateUser", "DeleteUser"}, a, a))
        => /\ last'.err = ErrNotAuthorized
           /\ users'[a].role = users[a].role
           /\ users'[a].isAdmin = users[a].isAdmin
           /\ users'[a].active = users[a].active
           /\ users'[a].deleted = users[a].deleted
    ]_vars

\* C24 (as claimed): in every reachable store every Identity whose isAdmin flag is true
\* has the role admin.
C24_AdminFlagImpliesAdminRole ==
    \A i \in DOMAIN users : users[i].isAdmin => users[i].role = "admin"

\* C25 (as claimed): in every reachable store every Identity has a non-empty email and
\* no two Identities have the same email.
C25_EmailPresentAndUnique ==
    /\ \A i \in DOMAIN users : users[i].email # ""
    /\ \A i, j \in DOMAIN users : users[i].email = users[j].email => i = j

\* C26 (as claimed): a Google or GitHub ID that is present belongs to one Identity only,
\* and an absent one constrains nothing: Register with an email no row has always adds
\* an Identity without provider IDs, however many such Identities the store holds.
C26_ProviderIDsUniqueWhenPresent ==
    [][/\ \A i, j \in DOMAIN users :
            /\ (users[i].googleID # "" /\ users[i].googleID = users[j].googleID) => i = j
            /\ (users[i].githubID # "" /\ users[i].githubID = users[j].githubID) => i = j
       /\ (RegisterStep /\ \A i \in DOMAIN users : users[i].email # last'.arg)
            => /\ last'.err = OK
               /\ Len(users') = Len(users) + 1
               /\ users'[Len(users')].googleID = ""
               /\ users'[Len(users')].githubID = ""
    ]_vars

\* C27 (as claimed): in a store where an absent provider ID is NULL, a GitHub flow that
\* reaches the resolve step with a GitHub ID no row holds and no email obtained succeeds
\* and creates an Identity that is active, not verified and has an empty email,
\* whatever the store holds already, another email-less Identity included.
C27_EmaillessGitHubIdentityCreated ==
    [][( /\ last = Idle
         /\ last'.op = "GitHubCallback"
         /\ Len(last'.steps) >= 3
         /\ AbsentProviderIDIsNull
         /\ last'.profile.email = ""
         /\ \A i \in DOMAIN users : users[i].githubID # last'.profile.id )
        => /\ last'.err = OK
           /\ Len(users') = Len(users) + 1
           /\ users'[Len(users')].email = ""
           /\ users'[Len(users')].githubID = last'.profile.id
           /\ users'[Len(users')].active
           /\ ~users'[Len(users')].verified
    ]_vars

\* C28 (as claimed): every federation callback that has called the service eventually
\* returns, with a session or with a failure, whether or not the provider answers.
C28_CallbackEventuallyReturns ==
    (calls # <<>>) ~> (calls = <<>>)

\* C29: a federation flow verifies the state before anything else; its service steps
\* then run in the order exchange, profile fetch, resolve-or-create, token issue, each
\* at most once; the flow ends with a session exactly when all four have run, and
\* otherwise ends with an error at the step that failed, with no token issued; the
\* store changes at the resolve step only, so a flow that fails at the state check, the
\* exchange or the profile fetch leaves the store as it was.
C29_FlowStepsInOrder ==
    [][/\ (calls = <<>> /\ calls' # <<>>)
            => /\ oauthState # NoCookie
               /\ calls'[1].state = oauthState
               /\ calls'[1].steps = <<>>
               /\ users' = users /\ tokens' = tokens
       /\ (calls = <<>> /\ calls' = <<>> /\ last = Idle /\ last'.op \in OAuthCallbackOps)
            => /\ last'.err \in {MsgInvalidState, MsgNoCode}
               /\ last'.steps = <<>>
               /\ last'.token = NoToken
               /\ users' = users /\ tokens' = tokens
       /\ (calls # <<>> /\ calls' # <<>>)
            => /\ InFlowOrder(calls'[1].steps)
               /\ \/ calls'[1].steps = calls[1].steps
                  \/ NextInFlowOrder(calls[1].steps, calls'[1].steps)
               /\ tokens' = tokens
               /\ users' # users
                    => /\ calls[1].steps = <<"exchange", "userinfo">>
                       /\ calls'[1].steps = <<"exchange", "userinfo", "findOrCreate">>
       /\ (calls # <<>> /\ calls' = <<>>)
            => /\ last'.op = calls[1].op
               /\ NextInFlowOrder(calls[1].steps, last'.steps)
               /\ users' = users
               /\ (last'.err = OK) = (last'.steps = FlowOrder)
               /\ last'.err = OK => (last'.token # NoToken /\ last'.token \in tokens')
               /\ last'.err # OK
                    => /\ last'.token = NoToken
                       /\ last'.uid = NoUser
                       /\ tokens' = calls[1].issued
               /\ (last'.err # OK /\ Len(last'.steps) <= 2) => users' = calls[1].start
    ]_vars

\* A flow has ended at the profile fetch: the exchange and the profile request ran,
\* nothing after them, and the store and the token set are as they were.
C29_Witness ==
    /\ last.op \in OAuthCallbackOps
    /\ last.err = MsgUserInfo
    /\ last.steps = <<"exchange", "userinfo">>
    /\ last.token = NoToken
    /\ calls = <<>>

\* C30 (as claimed): a callback whose profile request was made and brought back no
\* profile (no provider ID was decoded) ends with the error of the profile request,
\* changes no row and issues no session token.
C30_ErrorReplyIsProfileUnavailable ==
    [][( /\ last = Idle
         /\ last'.op \in OAuthCallbackOps
         /\ Len(last'.steps) >= 2
         /\ last'.profile.id \in {"", "0"} )
        => /\ last'.err = MsgUserInfo
           /\ users' = users
           /\ last'.token = NoToken
           /\ tokens' = tokens
    ]_vars

(***************************************************************************)
(* Claims about roles, emails, the super-admin, concurrent writers, the    *)
(* response representation and the middlewares.                            *)
(***************************************************************************)
\* C31: in every state every Identity's role is user, moderator or admin; an Identity
\* created by Register or by a federation callback has the role user; and no
\* UpdateUser, PromoteToAdmin or DemoteFromAdmin (nor any other call) stores another
\* value.
C31_RoleIsEnumerated ==
    [][/\ \A i \in DOMAIN users : users[i].role \in {"user", "moderator", "admin"}
       /\ \A i \in DOMAIN users' : users'[i].role \in {"user", "moderator", "admin"}
       /\ Len(users') > Len(users) => users'[Len(users')].role = "user"
    ]_vars

\* UpdateUser has been refused a role outside the enumeration for an Identity that a
\* registration or a federation callback created.
C31_Witness ==
    /\ last.op = "UpdateUser"
    /\ last.arg = "superuser"
    /\ last.err = ErrInvalidRole
    /\ last.target \in DOMAIN users
    /\ users[last.target].email = "new@example.com"
    /\ users[last.target].role = "user"

\* The email with its letters in lower case.
LowerCase(email) ==
    CASE email = "Admin@Example.com" -> "admin@example.com"
      [] OTHER -> email

\* C32: emails are case-normalized: no two Identities have emails that are equal up to
\* letter case, and a Register whose email differs only in letter case from the email
\* of an existing Identity returns UserExists and adds nothing.
C32_EmailsCaseNormalized ==
    [][AbsentProviderIDIsNull =>
        /\ \A i, j \in LiveIDs(users') :
                LowerCase(users'[i].email) = LowerCase(users'[j].email) => i = j
        /\ (/\ last = Idle
            /\ last'.op = "Register"
            /\ BindsRegisterRequest([email |-> last'.arg, password |-> last'.password,
                                     name |-> "Al"])
            /\ \E i \in LiveIDs(users) : LowerCase(users[i].email) = LowerCase(last'.arg))
           => (last'.err = ErrUserExists /\ users' = users)
    ]_vars

\* The store holds an active Identity with the role admin.
HasActiveSuperAdmin(us) == \E i \in LiveIDs(us) : us[i].active /\ us[i].role = "admin"

\* C33: the last super-admin cannot be lost: when the store holds an active Identity
\* with role admin, it still holds one after any AdminService operation.
C33_SuperAdminRemains ==
    [][(last = Idle /\ last'.op \in AdminWriteOps /\ HasActiveSuperAdmin(users))
            => HasActiveSuperAdmin(users')]_vars

\* C34: a committed admin decision stands: once a DeactivateUser or DemoteFromAdmin on
\* a user has succeeded, a concurrent Login, UpdateProfile or account link of that user,
\* which read the user's record before the admin's write and saves it afterwards, does
\* not undo it: the user stays inactive, respectively without the admin role and flag.
C34_AdminDecisionStands ==
    \A q \in DOMAIN calls :
        (calls[q].pc = "done" /\ calls[q].err = OK) =>
            /\ calls[q].op = "DeactivateUser" => ~users[calls[q].target].active
            /\ calls[q].op = "DemoteFromAdmin" =>
                    (users[calls[q].target].role = "user" /\ ~users[calls[q].target].isAdmin)

\* C35: no privilege escalation without a super-admin: in a step of any operation
\* whose actor does not have the role admin (an unauthenticated Register, Login or
\* federation callback included) no Identity acquires the role admin or isAdmin = true
\* that it did not have before, and an Identity the step creates has the role user and
\* isAdmin = false.
C35_NoEscalationWithoutSuperAdmin ==
    [][(/\ last = Idle
        /\ last'.op # "none"
        /\ ~(last'.actor \in DOMAIN users /\ users[last'.actor].role = "admin"))
       => \A i \in DOMAIN users' :
            IF i \in DOMAIN users
            THEN /\ users'[i].role = "admin" => users[i].role = "admin"
                 /\ users'[i].isAdmin => users[i].isAdmin
            ELSE users'[i].role = "user" /\ ~users'[i].isAdmin
    ]_vars

\* An admin by flag only (isAdmin without the role admin) has asked for the promotion
\* of a user and was refused; the user's role and flag are as before.
C35_Witness ==
    /\ last.op = "PromoteToAdmin"
    /\ last.err = ErrNotAuthorized
    /\ users[last.actor].isAdmin
    /\ users[last.actor].role # "admin"
    /\ last.target \in LiveIDs(users)
    /\ last.target # last.actor
    /\ users[last.target].role = "user"
    /\ ~users[last.target].isAdmin

\* C36: the UserResponse of a reply reports the role and the admin flag exactly as
\* they are stored: after every successful call that replies with a user, the reply's
\* role and is_admin are those of the stored row; the reply of a successful
\* PromoteToAdmin shows role admin and is_admin true.
C36_ResponseReportsRoleAndFlag ==
    [][(last = Idle /\ last'.err = OK /\ last'.user # NoResponse) =>
        /\ last'.user.role = users'[last'.user.id].role
        /\ last'.user.isAdmin = users'[last'.user.id].isAdmin
        /\ last'.op = "PromoteToAdmin" => (last'.user.role = "admin" /\ last'.user.isAdmin)
    ]_vars

\* C37: AuthMiddleware and OptionalAuthMiddleware agree: for every request (header and
\* jwt cookie) and every store, OptionalAuthMiddleware sets a user exactly when
\* AuthMiddleware lets the same request through, and then the same user; and
\* OptionalAuthMiddleware never aborts the request.
C37_MiddlewaresAgree ==
    [][(last = Idle /\ last'.op = "OptionalAuthMiddleware") =>
        /\ last'.err = OK
        /\ \A header \in PresentedTokens, cookie \in PresentedTokens :
                RequestToken(header, cookie) = last'.token =>
                    LET r == AuthMiddleware(users, header, cookie, now) IN
                    /\ (last'.uid # NoUser) <=> (r.err = OK)
                    /\ last'.uid = r.uid
    ]_vars

\* A request with the unexpired token of a deactivated user has passed
\* OptionalAuthMiddleware without a user in its context.
C37_Witness ==
    /\ last.op = "OptionalAuthMiddleware"
    /\ last.err = OK
    /\ last.uid = NoUser
    /\ last.token \in tokens
    /\ ValidateJWT(last.token, now).err = OK
    /\ ValidateJWT(last.token, now).uid \in LiveIDs(users)
    /\ ~users[ValidateJWT(last.token, now).uid].active

\* C38: federation never links on the basis of an empty email: a Google or GitHub
\* callback whose profile has an empty email gives no existing Identity a provider ID
\* that it did not hold before.
C38_NoLinkByEmptyEmail ==
    [][(/\ last = Idle
        /\ last'.op \in OAuthCallbackOps
        /\ Len(last'.steps) >= 3
        /\ last'.profile.email = "")
       => \A i \in DOMAIN users :
            /\ users'[i].googleID = users[i].googleID
            /\ users'[i].githubID = users[i].githubID
    ]_vars

====
